---------------------------- MODULE Spec2Model ----------------------------
(***************************************************************************)
(* Vendor-leads ingestion pipeline: the HTTP post-router (part_003), the   *)
(* vendor lead-id resolver (part_002, object-utils.js), the vendor         *)
(* response factory and the configuration loader (bin/vendor-leads.ts),    *)
(* the DynamoDB writer (ddb-writer.js) and the queue / table wiring of the *)
(* CDK stacks (lib/*.ts).                                                  *)
(*                                                                         *)
(* JavaScript strings that the code takes apart (vendor names, property    *)
(* paths, form bodies) are sequences of one-character strings.  Literals   *)
(* the code only passes around (messages, statuses) are TLA+ strings.      *)
(* JSON values are tagged records.                                         *)
(***************************************************************************)
EXTENDS Integers, Sequences, FiniteSets, TLC

(***************************************************************************)
(* Bounds of the model.                                                    *)
(***************************************************************************)
MaxRequests == 1
MaxWriters == 2
MaxTime == 1

(***************************************************************************)
(* JavaScript values.                                                      *)
(***************************************************************************)
Undefined == [t |-> "undef"]
JNull == [t |-> "null"]
JStr(cs) == [t |-> "str", s |-> cs]
JNum(n) == [t |-> "num", n |-> n]
JObj(f) == [t |-> "obj", o |-> f]
JArr(a) == [t |-> "arr", a |-> a]
Thrown(m) == [t |-> "throw", message |-> m]
IsThrown(v) == v.t = "throw"
EmptyObj == JObj(<<>>)

DigitChars == <<"0", "1", "2", "3", "4", "5", "6", "7", "8", "9">>

RECURSIVE Digits(_)
Digits(n) ==
    IF n < 10 THEN <<DigitChars[n + 1]>>
    ELSE Digits(n \div 10) \o <<DigitChars[(n % 10) + 1]>>

\* JavaScript truthiness: undefined, null, 0 and "" are falsy
Truthy(v) ==
    CASE v.t = "undef" -> FALSE
      [] v.t = "null" -> FALSE
      [] v.t = "str" -> v.s # <<>>
      [] v.t = "num" -> v.n # 0
      [] OTHER -> TRUE

\* obj[key]: a TypeError on null and undefined, undefined when the key is absent
GetProp(v, key) ==
    CASE v.t \in {"undef", "null"} -> Thrown("TypeError")
      [] v.t = "obj" -> IF key \in DOMAIN v.o THEN v.o[key] ELSE Undefined
      [] v.t = "arr" ->
            IF \E i \in 1..Len(v.a) : Digits(i - 1) = key
            THEN v.a[CHOOSE i \in 1..Len(v.a) : Digits(i - 1) = key]
            ELSE Undefined
      [] OTHER -> Undefined

\* obj?.[key] on a value that may be undefined
GetPropOpt(v, key) ==
    IF v.t \in {"undef", "null"} THEN Undefined ELSE GetProp(v, key)

\* `${v}` in a template literal
TemplateStr(v) ==
    CASE v.t = "str" -> v.s
      [] v.t = "num" -> Digits(v.n)
      [] v.t = "obj" -> <<"[object Object]">>
      [] v.t = "null" -> <<"n", "u", "l", "l">>
      [] OTHER -> <<"u", "n", "d", "e", "f", "i", "n", "e", "d">>

UpperChars ==
    <<"A", "B", "C", "D", "E", "F", "G", "H", "I", "J", "K", "L", "M",
      "N", "O", "P", "Q", "R", "S", "T", "U", "V", "W", "X", "Y", "Z">>
LowerChars ==
    <<"a", "b", "c", "d", "e", "f", "g", "h", "i", "j", "k", "l", "m",
      "n", "o", "p", "q", "r", "s", "t", "u", "v", "w", "x", "y", "z">>

\* String.prototype.toLowerCase
ToLowerCase(cs) ==
    [i \in 1..Len(cs) |->
        IF \E j \in 1..26 : UpperChars[j] = cs[i]
        THEN LowerChars[CHOOSE j \in 1..26 : UpperChars[j] = cs[i]]
        ELSE cs[i]]

\* String.prototype.split(sep) for a one-character separator
RECURSIVE Split(_, _)
Split(cs, sep) ==
    IF \A i \in 1..Len(cs) : cs[i] # sep THEN <<cs>>
    ELSE LET i == CHOOSE k \in 1..Len(cs) :
                     cs[k] = sep /\ \A j \in 1..(k - 1) : cs[j] # sep
         IN <<SubSeq(cs, 1, i - 1)>> \o Split(SubSeq(cs, i + 1, Len(cs)), sep)

\* String.prototype.includes(c) for a one-character argument
Includes(cs, c) == \E i \in 1..Len(cs) : cs[i] = c

(***************************************************************************)
(* Property names the code spells out.  A name the code never takes apart  *)
(* is a one-element sequence.                                              *)
(***************************************************************************)
K_requestId == <<"requestId">>
K_leadIdProperty == <<"leadIdProperty">>
K_vendor == <<"v", "e", "n", "d", "o", "r">>
LENDINGTREE == <<"l", "e", "n", "d", "i", "n", "g", "t", "r", "e", "e">>
UNKNOWN == <<"u", "n", "k", "n", "o", "w", "n">>

(***************************************************************************)
(* Texts: what JSON.stringify produces and JSON.parse reads.  A text is    *)
(* either the serialisation of a JSON value or a plain character string    *)
(* that is not a JSON document.                                            *)
(***************************************************************************)
NoBody == [k |-> "null"]
JsonText(v) == [k |-> "json", v |-> v]
CharText(cs) == [k |-> "chars", cs |-> cs]

JSONStringify(v) == JsonText(v)

\* JSON.parse: the value a JSON document encodes, a SyntaxError on other text
JSONParse(text) ==
    IF text.k = "json" THEN text.v ELSE Thrown("SyntaxError")

(***************************************************************************)
(* object-utils.js: getNestedProperty                                      *)
(***************************************************************************)
RECURSIVE WalkPath(_, _)
WalkPath(current, keys) ==
    IF keys = <<>> THEN current
    ELSE IF current.t \notin {"obj", "arr"} THEN Undefined
    ELSE WalkPath(GetProp(current, Head(keys)), Tail(keys))

\* a traversal that dereferences every segment without looking at what it is
RECURSIVE WalkUnguarded(_, _)
WalkUnguarded(current, keys) ==
    IF keys = <<>> \/ IsThrown(current) THEN current
    ELSE WalkUnguarded(GetProp(current, Head(keys)), Tail(keys))

getNestedPropertyUnguarded(obj, path) == WalkUnguarded(obj, Split(path, "."))

getNestedProperty(obj, path) ==
    IF ~Truthy(obj) \/ path = <<>> THEN Undefined
    ELSE WalkPath(obj, Split(path, "."))

\* a generator that prefixes whatever requestId the lead has, falsy or not
generateLeadIdForOwnKey(data, now, rand) ==
    IF data.t = "obj" /\ K_requestId \in DOMAIN data.o
    THEN JStr(TemplateStr(data.o[K_requestId]) \o <<"_">> \o Digits(now) \o <<"_">> \o rand)
    ELSE JStr(Digits(now) \o <<"_">> \o rand)

(***************************************************************************)
(* vendors-data.js (part_002): getVendorsLeadId, generateUniqueLeadId      *)
(* now is Date.now(), rand is Math.random().toString(36).substring(2, 8).  *)
(***************************************************************************)
generateUniqueLeadId(data, now, rand) ==
    IF Truthy(data) /\ Truthy(GetProp(data, K_requestId))
    THEN JStr(TemplateStr(GetProp(data, K_requestId))
              \o <<"_">> \o Digits(now) \o <<"_">> \o rand)
    ELSE JStr(Digits(now) \o <<"_">> \o rand)

\* vendorsConfig[vendorName]?.leadIdProperty
LeadIdPropertyOf(vendorsConfig, vendorName) ==
    LET entry == GetProp(vendorsConfig, vendorName)
    IN  IF IsThrown(entry) THEN entry
        ELSE GetPropOpt(entry, K_leadIdProperty)

\* the value the configured property reaches in the lead
ResolveProperty(data, idPropertyName) ==
    IF ~Truthy(idPropertyName) THEN Undefined
    ELSE IF idPropertyName.t # "str" THEN Thrown("TypeError")
    ELSE IF Includes(idPropertyName.s, ".")
         THEN getNestedProperty(data, idPropertyName.s)
         ELSE GetProp(data, idPropertyName.s)

getVendorsLeadId(data, vendorsConfig, vendorName, now, rand) ==
    IF ~Truthy(data) THEN generateUniqueLeadId(data, now, rand)
    ELSE LET idPropertyName == LeadIdPropertyOf(vendorsConfig, vendorName)
         IN  IF IsThrown(idPropertyName) THEN idPropertyName
             ELSE LET leadId == ResolveProperty(data, idPropertyName)
                  IN  IF IsThrown(leadId) THEN leadId
                      ELSE IF Truthy(leadId) THEN leadId
                      ELSE generateUniqueLeadId(data, now, rand)

(***************************************************************************)
(* vendors-response.js (bin/vendor-leads.ts 20-75)                         *)
(* responseData is a record holding some of error, errorMessage, leadId.   *)
(***************************************************************************)
Field(r, name, default) == IF name \in DOMAIN r THEN r[name] ELSE default

\* an acknowledgement that leaves the lead id out
buildAnonymousResponse(responseData, isSuccess) ==
    [leadAcknowledgement |->
        [leadExternalId |-> JNull,
         partnerDecision |-> IF isSuccess THEN "accepted" ELSE "rejected",
         attemptRetransmit |-> ~isSuccess]]

buildLendingTreeResponse(responseData, isSuccess) ==
    [leadAcknowledgement |->
        [leadExternalId |->
            IF Truthy(Field(responseData, "leadId", Undefined))
            THEN responseData.leadId ELSE JNull,
         partnerDecision |-> IF isSuccess THEN "accepted" ELSE "rejected",
         attemptRetransmit |-> ~isSuccess]]

GenericResponse(responseData, isSuccess) ==
    [status |-> IF isSuccess THEN "success" ELSE "error",
     message |->
        IF isSuccess THEN "Leads processed asynchronously."
        ELSE IF Field(responseData, "errorMessage", "") # ""
             THEN responseData.errorMessage
             ELSE "Failed to process leads request."]

\* a factory that compares the vendor name as it is written
createVendorResponseExact(vendor, responseData, isSuccess) ==
    IF vendor = LENDINGTREE
    THEN buildLendingTreeResponse(responseData, isSuccess)
    ELSE GenericResponse(responseData, isSuccess)

createVendorResponse(vendor, responseData, isSuccess) ==
    IF ToLowerCase(vendor) = LENDINGTREE
    THEN buildLendingTreeResponse(responseData, isSuccess)
    ELSE GenericResponse(responseData, isSuccess)

ResponseHeaders ==
    [ContentType |-> "application/json",
     AccessControlAllowOrigin |-> "*",
     AccessControlAllowMethods |-> "POST, OPTIONS",
     AccessControlAllowHeaders |-> "Content-Type, vendor"]

createHttpResponse(statusCode, vendor, responseData, isSuccess) ==
    [statusCode |-> statusCode,
     headers |-> ResponseHeaders,
     body |-> createVendorResponse(vendor, responseData, isSuccess)]

SUCCESS_RESPONSE_CODE == 200
BAD_REQUEST_RESPONSE_CODE == 400
INTERNAL_SERVER_ERROR_RESPONSE_CODE == 500

\* a preflight answer with the headers of the other answers
PreflightDefaultHeaders ==
    [statusCode |-> 200,
     headers |-> ResponseHeaders,
     body |-> [message |-> "CORS preflight successful"]]

\* the OPTIONS preflight answer of the handler
PreflightResponse ==
    [statusCode |-> 200,
     headers |-> [AccessControlAllowOrigin |-> "*",
                  AccessControlAllowMethods |-> "POST, PUT, PATCH, OPTIONS",
                  AccessControlAllowHeaders |-> "Content-Type, vendor",
                  AccessControlMaxAge |-> "86400"],
     body |-> [message |-> "CORS preflight successful"]]

(***************************************************************************)
(* post-router.js (part_003 271-602): request normalisation                *)
(* An event is [httpMethod, headers, queryStringParameters, body]; headers *)
(* and queryStringParameters are JSON objects of strings or null, body is  *)
(* a text or NoBody.                                                       *)
(***************************************************************************)
H_ContentType1 == <<"Content-type">>
H_ContentType2 == <<"content-type">>
H_ContentType3 == <<"Content-Type">>
FORM_URLENCODED == "application/x-www-form-urlencoded"

\* decodeURIComponent's escapes over the alphabet of the model; any other
\* escape (a truncated one, a lone byte of a multi-byte sequence) is a URIError
PercentTable ==
    (<<"2", "0">> :> " ") @@ (<<"2", "5">> :> "%") @@ (<<"2", "6">> :> "&") @@
    (<<"3", "D">> :> "=") @@ (<<"2", "B">> :> "+") @@ (<<"2", "E">> :> ".")

RECURSIVE decodeURIComponent(_)
decodeURIComponent(cs) ==
    IF cs = <<>> THEN [ok |-> TRUE, cs |-> <<>>]
    ELSE IF Head(cs) # "%"
    THEN LET r == decodeURIComponent(Tail(cs))
         IN  [ok |-> r.ok, cs |-> <<Head(cs)>> \o r.cs]
    ELSE IF Len(cs) < 3 \/ <<cs[2], cs[3]>> \notin DOMAIN PercentTable
    THEN [ok |-> FALSE, cs |-> <<>>]
    ELSE LET r == decodeURIComponent(SubSeq(cs, 4, Len(cs)))
         IN  [ok |-> r.ok, cs |-> <<PercentTable[<<cs[2], cs[3]>>]>> \o r.cs]

\* value.replace(/\+/g, ' ')
ReplacePlus(cs) == [i \in 1..Len(cs) |-> IF cs[i] = "+" THEN " " ELSE cs[i]]

\* a decoding that stops after its first step
DecodeOnce(decoded, previousDecoded) ==
    LET r == decodeURIComponent(ReplacePlus(decoded))
    IN  IF r.ok THEN r.cs ELSE decoded

RECURSIVE DecodeLoop(_, _)
DecodeLoop(decoded, previousDecoded) ==
    IF decoded = previousDecoded THEN decoded
    ELSE LET r == decodeURIComponent(ReplacePlus(decoded))
         IN  IF r.ok THEN DecodeLoop(r.cs, decoded) ELSE decoded

\* value is a JSON string or null
decodeFormValue(value) ==
    IF value.t \in {"null", "undef"} THEN value
    ELSE JStr(DecodeLoop(value.s, <<>>))

decodeKeyValuePair(key, value) ==
    <<decodeFormValue(JStr(key)).s, decodeFormValue(value)>>

\* params is the function of a JSON object
decodeURLParams(params) ==
    [dk \in {decodeKeyValuePair(k, params[k])[1] : k \in DOMAIN params} |->
        LET k == CHOOSE k \in DOMAIN params : decodeKeyValuePair(k, params[k])[1] = dk
        IN  decodeKeyValuePair(k, params[k])[2]]

RECURSIVE DecodePairs(_, _)
DecodePairs(pairs, params) ==
    IF pairs = <<>> THEN params
    ELSE LET parts == Split(Head(pairs), "=")
             key == parts[1]
             value == IF Len(parts) >= 2 THEN JStr(parts[2]) ELSE JNull
             actualValue == IF value.t = "null" \/ value.s = <<>> THEN JNull ELSE value
             kv == decodeKeyValuePair(key, actualValue)
         IN  IF key = <<>> THEN DecodePairs(Tail(pairs), params)
             ELSE DecodePairs(Tail(pairs), (kv[1] :> kv[2]) @@ params)

\* the characters of a body; a JSON document read as form data is one token
Chars(text) == IF text.k = "chars" THEN text.cs ELSE <<"{json}">>

decodeURLParamsInBody(body) ==
    IF \A i \in 1..Len(Chars(body)) : Chars(body)[i] = " " THEN <<>>
    ELSE DecodePairs(Split(Chars(body), "&"), <<>>)

\* if (params.vendor) delete params.vendor
StripVendor(params) ==
    IF K_vendor \in DOMAIN params /\ Truthy(params[K_vendor])
    THEN [k \in DOMAIN params \ {K_vendor} |-> params[k]]
    ELSE params

\* an extraction that looks at the query string first
getVendorQueryFirst(event) ==
    IF Truthy(GetPropOpt(event.queryStringParameters, K_vendor))
    THEN GetPropOpt(event.queryStringParameters, K_vendor)
    ELSE IF Truthy(GetPropOpt(event.headers, K_vendor))
    THEN GetPropOpt(event.headers, K_vendor)
    ELSE Undefined

getVendor(event) ==
    IF Truthy(GetPropOpt(event.headers, K_vendor))
    THEN GetPropOpt(event.headers, K_vendor)
    ELSE IF Truthy(GetPropOpt(event.queryStringParameters, K_vendor))
    THEN GetPropOpt(event.queryStringParameters, K_vendor)
    ELSE Undefined

HasBody(event) ==
    /\ event.body.k # "null"
    /\ event.body.k = "chars" => Len(event.body.cs) > 0

ContentTypeOf(event) ==
    LET h1 == GetPropOpt(event.headers, H_ContentType1)
        h2 == GetPropOpt(event.headers, H_ContentType2)
        h3 == GetPropOpt(event.headers, H_ContentType3)
    IN  IF Truthy(h1) THEN h1.s
        ELSE IF Truthy(h2) THEN h2.s
        ELSE IF Truthy(h3) THEN h3.s
        ELSE <<>>

\* the payload text, or NoBody for null
getLeadsData(event) ==
    IF HasBody(event)
    THEN IF Includes(ContentTypeOf(event), FORM_URLENCODED)
         THEN LET bodyParams == StripVendor(decodeURLParamsInBody(event.body))
              IN  IF DOMAIN bodyParams = {} THEN NoBody
                  ELSE JSONStringify(JObj(bodyParams))
         ELSE event.body
    ELSE LET qs == IF event.queryStringParameters.t = "obj"
                   THEN event.queryStringParameters.o ELSE <<>>
             queryParamsWithoutVendor == StripVendor(qs)
         IN  IF DOMAIN queryParamsWithoutVendor = {} THEN NoBody
             ELSE JSONStringify(JObj(decodeURLParams(queryParamsWithoutVendor)))

\* an extraction that resolves the id of the first lead of an array
extractLeadIdOfFirstLead(leadsData, vendorName, vendorsConfig, now, rand) ==
    LET parsedLeadsData == JSONParse(leadsData)
        first == IF parsedLeadsData.t = "arr" /\ parsedLeadsData.a # <<>>
                 THEN parsedLeadsData.a[1] ELSE parsedLeadsData
    IN  IF IsThrown(parsedLeadsData)
        THEN [leadId |-> parsedLeadsData, configRead |-> FALSE]
        ELSE IF first.t \notin {"obj", "null"}
        THEN [leadId |-> JNull, configRead |-> FALSE]
        ELSE [leadId |-> getVendorsLeadId(first, vendorsConfig, vendorName, now, rand),
              configRead |-> TRUE]

\* an extraction that answers null for a payload it cannot parse
extractLeadIdIgnoringSyntax(leadsData, vendorName, vendorsConfig, now, rand) ==
    LET parsedLeadsData == JSONParse(leadsData)
    IN  IF parsedLeadsData.t \notin {"obj", "null"}
        THEN [leadId |-> JNull, configRead |-> FALSE]
        ELSE [leadId |-> getVendorsLeadId(parsedLeadsData, vendorsConfig, vendorName, now, rand),
              configRead |-> TRUE]

\* extractLeadIdFromNonArrayData; vendorsConfig is what getVendorsConfig
\* returns when it is called.  The result says whether it was called.
extractLeadIdFromNonArrayData(leadsData, vendorName, vendorsConfig, now, rand) ==
    LET parsedLeadsData == JSONParse(leadsData)
    IN  IF IsThrown(parsedLeadsData)
        THEN [leadId |-> parsedLeadsData, configRead |-> FALSE]
        ELSE IF parsedLeadsData.t \notin {"obj", "null"}
        THEN [leadId |-> JNull, configRead |-> FALSE]
        ELSE [leadId |-> getVendorsLeadId(parsedLeadsData, vendorsConfig, vendorName, now, rand),
              configRead |-> TRUE]

MAX_MESSAGES_PER_BATCH == 10
MAX_EVENTS_PER_BATCH == 10

\* a payload that is always taken as one lead
LeadsWrapped(leadsData) == <<JSONParse(leadsData)>>

\* Array.isArray(parsed) ? parsed : [parsed]
LeadsOf(leadsData) ==
    LET parsedLeadsData == JSONParse(leadsData)
    IN  IF parsedLeadsData.t = "arr" THEN parsedLeadsData.a ELSE <<parsedLeadsData>>

\* a split that keeps the first chunk only
ChunksFirstOnly(leads, size) ==
    IF leads = <<>> THEN <<>>
    ELSE <<SubSeq(leads, 1, IF Len(leads) <= size THEN Len(leads) ELSE size)>>

\* for (i = 0; i < leads.length; i += size) chunks.push(leads.slice(i, i + size))
RECURSIVE ChunksOf(_, _)
ChunksOf(leads, size) ==
    IF leads = <<>> THEN <<>>
    ELSE IF Len(leads) <= size THEN <<leads>>
    ELSE <<SubSeq(leads, 1, size)>> \o ChunksOf(SubSeq(leads, size + 1, Len(leads)), size)

(***************************************************************************)
(* vendors-config.js (bin/vendor-leads.ts 77-116) and the writer's own     *)
(* copy (ddb-writer.js 145-161).  ssm is the outcome of the parameter      *)
(* read: [ok |-> FALSE] when the call fails, else the parameter's value.   *)
(***************************************************************************)
SsmFailure == [ok |-> FALSE]
SsmValue(text) == [ok |-> TRUE, value |-> text]

getVendorsConfig(ssm) ==
    IF ssm.ok /\ ssm.value.k # "null" /\ Chars(ssm.value) # <<>>
    THEN IF IsThrown(JSONParse(ssm.value)) THEN EmptyObj ELSE JSONParse(ssm.value)
    ELSE EmptyObj

getVendorsConfigWriter(ssm) ==
    IF ssm.ok /\ ssm.value.k # "null" /\ Chars(ssm.value) # <<>>
    THEN IF IsThrown(JSONParse(ssm.value)) THEN EmptyObj ELSE JSONParse(ssm.value)
    ELSE EmptyObj

(***************************************************************************)
(* Inputs of the model.                                                    *)
(***************************************************************************)
K_id == <<"i", "d">>
V_acme == <<"a", "c", "m", "e">>
V_LendingTree == <<"L", "e", "n", "d", "i", "n", "g", "T", "r", "e", "e">>

\* the parameter the deployment stores: lendingtree leads carry their id in "id"
StoredConfig == JObj(LENDINGTREE :> JObj(K_leadIdProperty :> JStr(K_id)))
\* what the read of the parameter can yield: the stored mapping, a failed call
\* (store unreachable, access denied, parameter not found), a parameter without
\* a value or with an empty one, a value that is no JSON document, and JSON
\* documents that are no mapping
K_InternalLeadID == <<"Internal_LeadID">>
K_universalLeadid == <<"universal_leadid">>
V_lendgo == <<"l", "e", "n", "d", "g", "o">>
V_testurl == <<"t", "e", "s", "t", "u", "r", "l">>
V_abc123 == <<"a", "b", "c", "1", "2", "3">>

\* the parameter as the code documents its format
DocumentedConfig ==
    JObj((LENDINGTREE :> JObj(K_leadIdProperty :> JStr(K_InternalLeadID))) @@
         (V_lendgo :> JObj(K_leadIdProperty :> JStr(K_universalLeadid))) @@
         (V_testurl :> JObj(K_leadIdProperty :> JStr(K_id))))

\* a configuration whose property is a dotted path: lendgo leads carry their
\* id in user.id
K_user == <<"u", "s", "e", "r">>
P_userId == K_user \o <<".">> \o K_id
V_x9 == <<"x", "9">>
NestedConfig == JObj(V_lendgo :> JObj(K_leadIdProperty :> JStr(P_userId)))

SsmOutcomes ==
    {SsmValue(JsonText(StoredConfig)), SsmValue(JsonText(DocumentedConfig)),
     SsmValue(JsonText(NestedConfig)), SsmFailure,
     SsmValue(NoBody), SsmValue(CharText(<<>>)), SsmValue(CharText(<<"{">>)),
     SsmValue(JsonText(JNull)), SsmValue(JsonText(JNum(5))),
     SsmValue(JsonText(JArr(<<>>)))}

RandomSuffixes == {<<"k", "3", "x", "9", "q", "a">>}

LeadWithId(v) == JObj(K_id :> JStr(v))
LeadWithIdAnd(v) == JObj((K_id :> JStr(v)) @@ (<<"x">> :> JStr(<<"1">>)))
LeadNoId == JObj(<<"x">> :> JStr(<<"1">>))

Event(method, headers, query, body) ==
    [httpMethod |-> method, headers |-> headers,
     queryStringParameters |-> query, body |-> body]

VendorHeader(v) == JObj(K_vendor :> JStr(v))

\* the requests of the pipeline specification: single leads in a JSON body
PipelineEvents ==
    {Event("POST", VendorHeader(V_LendingTree), JNull,
           JsonText(JArr(<<LeadWithId(<<"a">>), LeadNoId>>))),
     Event("POST", VendorHeader(V_LendingTree), JNull,
           JsonText(JArr(<<LeadWithId(<<"a">>), LeadWithIdAnd(<<"a">>)>>)))}

\* the requests of the router specification: with and without a vendor, with
\* and without a payload, no lead, one lead, two leads, and the leads of two
\* and of three chunks
ManyLeads == 11
BatchLeads == 25
FormHeaders(v) ==
    JObj((K_vendor :> JStr(v)) @@ (H_ContentType3 :> JStr(<<FORM_URLENCODED>>)))
\* the form body a=1&b=hello%20world&vendor=acme
FormExample ==
    <<"a", "=", "1", "&", "b", "=", "h", "e", "l", "l", "o", "%", "2", "0",
      "w", "o", "r", "l", "d", "&">> \o K_vendor \o <<"=">> \o V_acme

\* form values: every text of up to MaxEncodedLen characters over "%", "2",
\* "5" and "+", and longer ones that are encoded twice or three times, that
\* fail to decode at the second step, and that hold an encoded "+"
MaxEncodedLen == 3
EncodedAlphabet == {"%", "2", "5", "+"}
MultiplyEncoded ==
    {<<"%", "2", "5", "2", "0">>,
     <<"%", "2", "5", "2", "5", "2", "0">>,
     <<"%", "2", "5", "z", "z">>,
     <<"a", "%", "2", "B", "b">>,
     <<"h", "i", "+", "y", "o", "u">>}
EncodedValues ==
    UNION {[1..n -> EncodedAlphabet] : n \in 1..MaxEncodedLen} \cup MultiplyEncoded
K_x == <<"x">>

\* leads for a dotted path: the id in place, the inner key missing, the outer
\* key missing, null and a string where an object is expected
NestedLeads ==
    {JObj(K_user :> JObj(K_id :> JStr(V_x9))),
     JObj(K_user :> EmptyObj),
     EmptyObj,
     JObj(K_user :> JNull),
     JObj(K_user :> JStr(V_x9))}

\* leads whose configured id is falsy, and leads of a vendor without
\* configuration that carry a requestId of their own: a text, "" and 0
V_r7 == <<"r", "7">>
FalsyIdLeads ==
    {JObj(K_user :> JObj(K_id :> JNum(0))),
     JObj(K_user :> JObj(K_id :> JStr(<<>>)))}
OwnRequestIdLeads ==
    {JObj(K_requestId :> JStr(V_r7)),
     JObj(K_requestId :> JStr(<<>>)),
     JObj(K_requestId :> JNum(0))}

\* bodies that are no JSON document, sent without the form content type
NotJsonBodies == {<<"x", "=", "1">>, <<" ">>, <<"{", "i", "d">>}

RouterEvents ==
    {Event("POST", VendorHeader(V_LendingTree), JNull, JsonText(JArr(<<>>)))} \cup
    {Event("POST", VendorHeader(V_lendgo), JNull, CharText(cs)) : cs \in NotJsonBodies} \cup
    {Event("POST", FormHeaders(V_acme), JNull, CharText(K_x \o <<"=">> \o v)) :
        v \in EncodedValues} \cup
    {Event("POST", VendorHeader(V_lendgo), JNull, JsonText(lead)) :
        lead \in NestedLeads \cup FalsyIdLeads} \cup
    {Event("POST", VendorHeader(V_acme), JNull, JsonText(lead)) : lead \in OwnRequestIdLeads} \cup
    {Event("POST", JNull, JNull, JsonText(LeadWithId(<<"a">>))),
     Event("POST", EmptyObj, JObj(<<"x">> :> JStr(<<"1">>)), NoBody),
     Event("OPTIONS", JNull, JNull, NoBody),
     Event("OPTIONS", VendorHeader(V_LendingTree), JObj(<<"x">> :> JStr(<<"1">>)),
           JsonText(LeadWithId(<<"a">>))),
     Event("OPTIONS", EmptyObj, JObj(K_vendor :> JStr(V_acme)),
           CharText(<<"{", "i", "d">>)),
     Event("POST", VendorHeader(V_acme), JNull, NoBody),
     Event("POST", VendorHeader(V_LendingTree), JNull, CharText(<<>>)),
     Event("POST", EmptyObj, JObj(K_vendor :> JStr(V_acme)), NoBody),
     Event("POST", VendorHeader(V_acme), JObj(K_vendor :> JStr(<<>>)), NoBody),
     Event("POST", VendorHeader(V_LendingTree), JNull, JsonText(LeadWithId(<<"a">>))),
     Event("POST", VendorHeader(V_acme), JNull, JsonText(LeadNoId)),
     Event("POST", VendorHeader(V_acme), JNull, CharText(<<"{", "i", "d">>)),
     Event("POST", FormHeaders(V_acme), JNull, CharText(<<"x", "=", "1">>)),
     Event("POST", VendorHeader(V_acme), JNull,
           JsonText(JArr(<<LeadWithId(<<"a">>), LeadNoId>>))),
     Event("POST", VendorHeader(V_LendingTree), JNull,
           JsonText(JArr([i \in 1..ManyLeads |-> LeadWithId(Digits(i))]))),
     Event("POST", VendorHeader(V_acme), JNull,
           JsonText(JArr([i \in 1..BatchLeads |-> LeadWithId(Digits(i))]))),
     Event("POST", VendorHeader(V_acme), JNull, JsonText(JArr(<<>>))),
     Event("POST", FormHeaders(V_acme), JNull, CharText(FormExample)),
     Event("POST", FormHeaders(V_acme), JNull,
           CharText(<<"x", "=", "1", "&">> \o K_vendor \o <<"=">>)),
     Event("POST", VendorHeader(V_LendingTree), JObj(K_vendor :> JStr(V_acme)),
           JsonText(LeadNoId)),
     Event("POST", VendorHeader(<<>>), JObj(K_vendor :> JStr(V_acme)), JsonText(LeadNoId)),
     Event("POST", JObj(H_ContentType3 :> JStr(<<FORM_URLENCODED>>)), JNull,
           CharText(K_vendor \o <<"=">> \o V_acme \o <<"&", "x", "=", "1">>)),
     Event("POST", VendorHeader(V_acme), JNull, JsonText(JNull)),
     Event("POST", VendorHeader(V_LendingTree), JNull, JsonText(JNum(5))),
     Event("POST", VendorHeader(LENDINGTREE), JNull,
           JsonText(JObj(K_InternalLeadID :> JStr(V_abc123))))}

\* the parameter reads of the StoreWriter in the pipeline specification
WriterSsmOutcomes == {SsmValue(JsonText(StoredConfig))}

(***************************************************************************)
(* State.                                                                  *)
(*   rt        the router invocation in progress (one HTTP request)        *)
(*   nreq      requests received so far                                    *)
(*   answered  per finished request: its status and number of leads        *)
(*   queue     visible messages of the DDB queue, each with its receive    *)
(*             count; dlq: the dead-letter queue                           *)
(*   bus       envelopes published on the event bus, in order              *)
(*   writers   the StoreWriter invocations (in flight messages are held    *)
(*             in the invocation's batch)                                  *)
(*   store     the items of the leads table                                *)
(*   now       the clock as last read by Date.now() and new Date(); time   *)
(*             passes between two reads                                    *)
(*   accepted, written, dropped, lastWrite   history of what happened to   *)
(*             each queue message and to each table key                    *)
(***************************************************************************)
VARIABLES rt, nreq, answered, queue, dlq, bus, writers, store, now,
          accepted, written, dropped, lastWrite

vars == <<rt, nreq, answered, queue, dlq, bus, writers, store, now,
          accepted, written, dropped, lastWrite>>

routerVars == <<rt, nreq, answered, bus>>
writerVars == <<writers, store, written, dropped, lastWrite>>

NoResponse == [statusCode |-> 0]

IdleRouter ==
    [pc |-> "idle", event |-> Event("", JNull, JNull, NoBody), requestId |-> 0,
     vendor |-> Undefined, leadsData |-> NoBody, leadId |-> Undefined,
     chunks |-> <<>>, k |-> 0, sqsCalls |-> <<>>, ebCalls |-> <<>>,
     configReads |-> 0, vendorsConfig |-> Undefined, response |-> NoResponse]

\* calls .. lastReported record what the invocation did: the number of batch
\* writes issued, whether the latest and whether any of them threw, the items
\* of the latest one, what the latest one that returned reported as
\* unprocessed (lastReported, meaningful when everCompleted), and the items
\* reported written so far; configReads counts the reads of the configuration;
\* delay is the wait, in ms, before the latest batch write
IdleWriter ==
    [pc |-> "idle", batch |-> <<>>, putRequests |-> <<>>, unprocessedItems |-> {},
     retryCount |-> 0, calls |-> 0, lastThrew |-> FALSE, anyThrew |-> FALSE,
     lastItems |-> {}, everCompleted |-> FALSE, lastReported |-> {},
     reportedWritten |-> {}, configReads |-> 0, delay |-> 0]

Init ==
    /\ rt = IdleRouter
    /\ nreq = 0
    /\ answered = <<>>
    /\ queue = {}
    /\ dlq = {}
    /\ bus = <<>>
    /\ writers = [w \in 1..MaxWriters |-> IdleWriter]
    /\ store = {}
    /\ now = 0
    /\ accepted = {}
    /\ written = {}
    /\ dropped = {}
    /\ lastWrite = <<>>

(***************************************************************************)
(* post-router.js handler (part_003 287-342)                               *)
(***************************************************************************)
\* context.awsRequestId of the n-th invocation
RequestIdOf(n) == <<"r">> \o Digits(n)

\* error.message || 'Internal Server Error'
ErrorMessage(err) == IF err.message # "" THEN err.message ELSE "Internal Server Error"

\* a handler without a catch block: the error leaves it and nothing is returned
ErrorPropagates(vendor, err, leadId) == NoResponse

\* the catch block of the handler
ErrorResponse(vendor, err, leadId) ==
    createHttpResponse(INTERNAL_SERVER_ERROR_RESPONSE_CODE,
                       IF Truthy(vendor) THEN vendor.s ELSE UNKNOWN,
                       [errorMessage |-> ErrorMessage(err), leadId |-> leadId], FALSE)

\* a 200 answer built as a failure
SuccessMarkedFailed(vendor, leadId) ==
    createHttpResponse(SUCCESS_RESPONSE_CODE, vendor.s, [leadId |-> leadId], FALSE)

SuccessResponse(vendor, leadId) ==
    createHttpResponse(SUCCESS_RESPONSE_CODE, vendor.s, [leadId |-> leadId], TRUE)

Finish(r, response) == [r EXCEPT !.pc = "done", !.response = response]

\* a handler that reads the configuration before it validates the request
HandlerRunReadingFirst(e, n, ssm, rand, t) ==
    LET vendor == getVendor(e)
        leadsData == getLeadsData(e)
        r0 == [IdleRouter EXCEPT !.event = e, !.requestId = n]
        r2 == [r0 EXCEPT !.vendor = vendor, !.leadsData = leadsData, !.configReads = 1,
                         !.vendorsConfig = getVendorsConfig(ssm)]
        ex == extractLeadIdFromNonArrayData(leadsData, vendor.s, getVendorsConfig(ssm), t, rand)
        r4 == [r2 EXCEPT !.leadId = ex.leadId,
                         !.chunks = ChunksOf(LeadsOf(leadsData), MAX_MESSAGES_PER_BATCH)]
    IN  IF e.httpMethod = "OPTIONS" THEN Finish(r0, PreflightResponse)
        ELSE IF ~Truthy(vendor)
        THEN Finish(r2, createHttpResponse(BAD_REQUEST_RESPONSE_CODE, UNKNOWN,
                            [error |-> "Vendor name cannot be empty."], FALSE))
        ELSE IF leadsData.k = "null"
        THEN Finish(r2, createHttpResponse(BAD_REQUEST_RESPONSE_CODE, vendor.s,
                            [error |-> "No lead data provided in body or query parameters."], FALSE))
        ELSE IF IsThrown(ex.leadId)
        THEN Finish(r2, ErrorResponse(vendor, ex.leadId, Undefined))
        ELSE IF r4.chunks = <<>>
        THEN Finish(r4, SuccessResponse(vendor, ex.leadId))
        ELSE [r4 EXCEPT !.pc = "sqs", !.k = 1]

\* the handler up to its first queue send
HandlerRun(e, n, ssm, rand, t) ==
    LET r0 == [IdleRouter EXCEPT !.event = e, !.requestId = n]
        vendor == getVendor(e)
        r1 == [r0 EXCEPT !.vendor = vendor]
        leadsData == getLeadsData(e)
        r2 == [r1 EXCEPT !.leadsData = leadsData]
        ex == extractLeadIdFromNonArrayData(leadsData, vendor.s, getVendorsConfig(ssm), t, rand)
        r3 == [r2 EXCEPT !.configReads = IF ex.configRead THEN 1 ELSE 0,
                         !.vendorsConfig = IF ex.configRead THEN getVendorsConfig(ssm)
                                           ELSE Undefined]
        r4 == [r3 EXCEPT !.leadId = ex.leadId,
                         !.chunks = ChunksOf(LeadsOf(leadsData), MAX_MESSAGES_PER_BATCH)]
    IN  IF e.httpMethod = "OPTIONS" THEN Finish(r0, PreflightResponse)
        ELSE IF ~Truthy(vendor)
        THEN Finish(r1, createHttpResponse(BAD_REQUEST_RESPONSE_CODE, UNKNOWN,
                            [error |-> "Vendor name cannot be empty."], FALSE))
        ELSE IF leadsData.k = "null"
        THEN Finish(r2, createHttpResponse(BAD_REQUEST_RESPONSE_CODE, vendor.s,
                            [error |-> "No lead data provided in body or query parameters."], FALSE))
        ELSE IF IsThrown(ex.leadId)
        THEN Finish(r3, ErrorResponse(vendor, ex.leadId, Undefined))
        ELSE IF r4.chunks = <<>>
        THEN Finish(r4, SuccessResponse(vendor, ex.leadId))
        ELSE [r4 EXCEPT !.pc = "sqs", !.k = 1]

Answer(r) ==
    IF r.pc = "done"
    THEN Append(answered, [requestId |-> r.requestId,
                           statusCode |-> r.response.statusCode,
                           leads |-> IF r.chunks = <<>> THEN 0
                                     ELSE (Len(r.chunks) - 1) * MAX_MESSAGES_PER_BATCH
                                          + Len(r.chunks[Len(r.chunks)])])
    ELSE answered

HandlerStart(e) ==
    /\ rt.pc \in {"idle", "done"}
    /\ nreq < MaxRequests
    /\ \E ssm \in SsmOutcomes, rand \in RandomSuffixes :
          /\ rt' = HandlerRun(e, nreq + 1, ssm, rand, now)
          /\ answered' = Answer(HandlerRun(e, nreq + 1, ssm, rand, now))
    /\ nreq' = nreq + 1
    /\ UNCHANGED <<queue, dlq, bus, now, accepted>>
    /\ UNCHANGED writerVars

(***************************************************************************)
(* sendLeadsToSQS (part_003 351-396)                                       *)
(***************************************************************************)
MaxFailedEntries == 1

\* what SendMessageBatch can answer for a batch of n entries: a thrown
\* transport error, or the positions it reports in Failed
SqsOutcomes(n) ==
    {[threw |-> TRUE, failed |-> {}]} \cup
    {[threw |-> FALSE, failed |-> F] :
        F \in {G \in SUBSET (1..n) : Cardinality(G) <= MaxFailedEntries \/ G = 1..n}}

\* a catch block that throws again
SqsCatchRethrows == "rethrow"

\* the catch block of the chunk loop only logs
SqsCatch == "swallow"

\* the object { requestId, vendor, lead }
QueuedLead(requestId, vendor, lead) ==
    [t |-> "message", requestId |-> requestId, vendor |-> vendor, lead |-> lead]

\* the entries of one chunk
SqsEntries(requestId, vendor, chunk) ==
    [i \in 1..Len(chunk) |->
        [Id |-> RequestIdOf(requestId) \o Digits(i - 1),
         MessageBody |-> JSONStringify(QueuedLead(RequestIdOf(requestId), vendor, chunk[i]))]]

\* the identity the queue gives the i-th entry of chunk k of request n
MessageIdOf(n, k, i) == <<n, (k - 1) * MAX_MESSAGES_PER_BATCH + i>>

\* a handler that starts the event-bus dispatch after its first queue send
AfterSendStartsBus(r) == [r EXCEPT !.pc = "eb", !.k = 1]

\* after a send has returned: the next chunk, and after the last chunk
\* sendLeadsToSQS returns and sendLeadsToEventBridge is called
AfterSend(r) ==
    IF r.k < Len(r.chunks) THEN [r EXCEPT !.k = r.k + 1]
    ELSE [r EXCEPT !.pc = "eb", !.k = 1]

SendChunkToSQS ==
    /\ rt.pc = "sqs"
    /\ LET chunk == rt.chunks[rt.k]
           entries == SqsEntries(rt.requestId, rt.vendor, chunk)
       IN  \E out \in SqsOutcomes(Len(chunk)) :
             LET sent == IF out.threw THEN {} ELSE (1..Len(chunk)) \ out.failed
                 msgs == {[id |-> MessageIdOf(rt.requestId, rt.k, i),
                           body |-> entries[i].MessageBody, rc |-> 0] : i \in sent}
                 r1 == [rt EXCEPT !.sqsCalls = Append(@, [chunk |-> rt.k, threw |-> out.threw,
                                                          failed |-> out.failed,
                                                          entries |-> Len(entries)])]
                 r2 == IF out.threw /\ SqsCatch = "rethrow"
                       THEN Finish(r1, ErrorResponse(rt.vendor, Thrown("SQS unavailable"), rt.leadId))
                       ELSE AfterSend(r1)
             IN  /\ queue' = queue \cup msgs
                 /\ accepted' = accepted \cup {m.id : m \in msgs}
                 /\ rt' = r2
                 /\ answered' = Answer(r2)
    /\ UNCHANGED <<nreq, dlq, bus, now>>
    /\ UNCHANGED writerVars

(***************************************************************************)
(* sendLeadsToEventBridge (part_003 404-453)                               *)
(***************************************************************************)
SALESFORCE_EVENT_BUS_RULE_SOURCE == "vendorleads.upsert"
SALESFORCE_EVENT_BUS_RULE_DETAIL_TYPE == "LeadsReceived"

\* what PutEvents can answer for the one entry of a call
EbErrorMessages == {"EventBridge unavailable"}
EbOutcomes ==
    {[threw |-> FALSE, message |-> "", FailedEntryCount |-> c] : c \in {0, 1}} \cup
    {[threw |-> TRUE, message |-> m, FailedEntryCount |-> 0] : m \in EbErrorMessages}

\* a catch block that only logs
EbCatchSwallows == "swallow"

\* the catch block of the chunk loop logs and throws again
EbCatch == "rethrow"

EventEntry(vendor, chunk) ==
    [Source |-> SALESFORCE_EVENT_BUS_RULE_SOURCE,
     DetailType |-> SALESFORCE_EVENT_BUS_RULE_DETAIL_TYPE,
     Detail |-> JSONStringify([vendor |-> vendor, leads |-> chunk])]

\* a dispatch that publishes the whole payload in one envelope
EbChunksWhole(leadsData) == <<LeadsOf(leadsData)>>

\* the chunks of sendLeadsToEventBridge, which parses and splits the payload
\* on its own (lines 412-420)
EbChunks(leadsData) == ChunksOf(LeadsOf(leadsData), MAX_EVENTS_PER_BATCH)

PutChunkToEventBridge ==
    /\ rt.pc = "eb"
    /\ \E out \in EbOutcomes :
          LET chunk == EbChunks(rt.leadsData)[rt.k]
              r1 == [rt EXCEPT !.ebCalls = Append(@, [chunk |-> rt.k, threw |-> out.threw,
                                                      FailedEntryCount |-> out.FailedEntryCount])]
              r2 == IF out.threw /\ EbCatch = "rethrow"
                    THEN Finish(r1, ErrorResponse(rt.vendor, Thrown(out.message), rt.leadId))
                    ELSE IF rt.k < Len(EbChunks(rt.leadsData)) THEN [r1 EXCEPT !.k = rt.k + 1]
                    ELSE Finish(r1, SuccessResponse(rt.vendor, rt.leadId))
          IN  /\ bus' = IF ~out.threw /\ out.FailedEntryCount = 0
                        THEN Append(bus, EventEntry(rt.vendor, chunk)) ELSE bus
              /\ rt' = r2
              /\ answered' = Answer(r2)
    /\ UNCHANGED <<nreq, queue, dlq, now, accepted>>
    /\ UNCHANGED writerVars

(***************************************************************************)
(* The DDB queue and its event source (lib/vendor-leads-stack.ts 189-237)  *)
(***************************************************************************)
maxReceiveCount == 3
batchSize == 10
maxConcurrency == 10

MsgOrder(m) == m.id[1] * 1000 + m.id[2]

\* the messages of a set as the Records of one event
RECURSIVE RecordsOf(_)
RecordsOf(S) ==
    IF S = {} THEN <<>>
    ELSE LET m == CHOOSE x \in S : \A y \in S : MsgOrder(x) <= MsgOrder(y)
         IN  <<m>> \o RecordsOf(S \ {m})

\* a queue that delivers a message however often it was received
ReceivableAnyCount == queue

Receivable == {m \in queue : m.rc < maxReceiveCount}

\* a message received maxReceiveCount times moves to the dead-letter queue
\* instead of being delivered again
Redrive ==
    /\ \E m \in queue :
          /\ m.rc >= maxReceiveCount
          /\ queue' = queue \ {m}
          /\ dlq' = dlq \cup {m}
    /\ UNCHANGED <<now, accepted>>
    /\ UNCHANGED routerVars
    /\ UNCHANGED writerVars

(***************************************************************************)
(* The leads table (lib/vendor-leads-database-stack.ts 22-33): LeadId is   *)
(* the partition key, VendorName the sort key; a put replaces the item     *)
(* that has the same key.                                                  *)
(***************************************************************************)
TableKey(item) == <<item.LeadId, item.VendorName>>

\* a table that keeps the old item next to the new one
PutItemsKeepingOld(table, items) == table \cup items

PutItems(table, items) ==
    {old \in table : \A new \in items : TableKey(new) # TableKey(old)} \cup items

(***************************************************************************)
(* ddb-writer.js: handler (13-40) and saveToDynamoDB (47-139)              *)
(***************************************************************************)
MAX_RETRIES == 3

\* lines 72-88: the id under which a message is persisted
WriterLeadId(message, vendorsConfig, t, rand) ==
    LET idPropertyName == LeadIdPropertyOf(vendorsConfig, ToLowerCase(message.vendor.s))
    IN  IF IsThrown(idPropertyName) THEN idPropertyName
        ELSE LET leadId == ResolveProperty(message.lead, idPropertyName)
             IN  IF IsThrown(leadId) THEN leadId
                 ELSE IF Truthy(leadId) THEN leadId
                 ELSE JStr(message.requestId \o <<"_">> \o Digits(t) \o <<"_">> \o rand)

\* lines 90-100: the put request of a message
PutRequestItem(message, leadId, t) ==
    [LeadId |-> <<"Lead#">> \o TemplateStr(leadId),
     VendorName |-> <<"Vendor#">> \o message.vendor.s,
     Vendor |-> message.vendor.s,
     ReceivedAt |-> t,
     Lead |-> message.lead]

\* marshall() yields a map only for an object
WellFormed(item) == item.Lead.t = "obj"

\* BatchWriteItem rejects a request with malformed items or a repeated key
Rejected(items) ==
    \/ \E it \in items : ~WellFormed(it)
    \/ \E a, b \in items : a # b /\ TableKey(a) = TableKey(b)

\* a backoff that waits the maximum before every retry
BackoffFixed(retryCount) == IF retryCount > 0 THEN 2000 ELSE 0

\* lines 109-112
BackoffDelay(retryCount) ==
    IF retryCount > 0
    THEN IF 100 * 2^retryCount < 2000 THEN 100 * 2^retryCount ELSE 2000
    ELSE 0

\* a catch block that throws every failure again
CatchAlwaysRethrows(retryCount) == TRUE

\* lines 126-133: the catch block counts the failure and throws on the last one
CatchRethrows(retryCount) == retryCount + 1 >= MAX_RETRIES

\* a loop that goes on while anything is unprocessed
LoopWhileUnprocessed(unprocessedItems, retryCount) == unprocessedItems # {}

\* line 106: the loop goes on
LoopContinues(unprocessedItems, retryCount) ==
    unprocessedItems # {} /\ retryCount < MAX_RETRIES

\* a retry that sends every put request again
AllPutRequests(wr) == DOMAIN wr.putRequests

\* lines 114-121: the request carries what is still unprocessed
RequestItems(wr) == wr.unprocessedItems

IdleWriters == {w \in 1..MaxWriters : writers[w].pc = "idle"}

\* One invocation starts: the event source hands it a batch, the handler
\* parses the records, loads the configuration and builds the put requests.
WriterStart(w) ==
    /\ w \in IdleWriters
    /\ \A v \in IdleWriters : w <= v
    /\ \E B \in SUBSET Receivable, ssm \in WriterSsmOutcomes, t \in now..MaxTime :
        \E rand \in [1..Cardinality(B) -> RandomSuffixes] :
          /\ B # {}
          /\ now' = t
          /\ Cardinality(B) <= batchSize
          /\ LET batch == RecordsOf({[m EXCEPT !.rc = m.rc + 1] : m \in B})
                 idx == 1..Len(batch)
                 messages == [i \in idx |-> JSONParse(batch[i].body)]
                 vendorsConfig == getVendorsConfigWriter(ssm)
                 leadIds == [i \in idx |-> WriterLeadId(messages[i], vendorsConfig, t, rand[i])]
                 puts == [i \in idx |->
                            [Item |-> PutRequestItem(messages[i], leadIds[i], t),
                             leadId |-> leadIds[i]]]
             IN  /\ queue' = queue \ B
                 /\ writers' = [writers EXCEPT ![w] =
                        IF \E i \in idx : IsThrown(messages[i])
                        THEN [IdleWriter EXCEPT !.pc = "threw", !.batch = batch]
                        ELSE IF \E i \in idx : IsThrown(leadIds[i])
                        THEN [IdleWriter EXCEPT !.pc = "threw", !.batch = batch,
                                                !.configReads = 1]
                        ELSE [IdleWriter EXCEPT !.pc = "loop", !.batch = batch,
                                                !.putRequests = puts,
                                                !.unprocessedItems = idx,
                                                !.configReads = 1]]
    /\ UNCHANGED <<store, written, dropped, lastWrite, dlq, accepted>>
    /\ UNCHANGED routerVars

\* what BatchWriteItem can answer for the requests at positions I
DdbOutcomes(wr, I) ==
    {[threw |-> TRUE, unprocessed |-> {}]} \cup
    IF Rejected({wr.putRequests[i].Item : i \in I}) THEN {}
    ELSE {[threw |-> FALSE, unprocessed |-> U] : U \in SUBSET I}

\* the record key of a resolved id and vendor
RecordKey(leadId, vendor) == <<TemplateStr(leadId), vendor>>

\* One pass of the retry loop: the backoff, the batch write and what follows.
WriterAttempt(w) ==
    /\ writers[w].pc = "loop"
    /\ LET wr == writers[w]
           I == RequestItems(wr)
       IN  \E out \in DdbOutcomes(wr, I) :
             LET done == IF out.threw THEN {} ELSE I \ out.unprocessed
                 unprocessedItems == IF out.threw THEN wr.unprocessedItems ELSE out.unprocessed
                 retryCount == IF out.threw \/ out.unprocessed # {}
                               THEN wr.retryCount + 1 ELSE wr.retryCount
                 rethrown == out.threw /\ CatchRethrows(wr.retryCount)
                 pc == IF rethrown THEN "threw"
                       ELSE IF LoopContinues(unprocessedItems, retryCount) THEN "loop"
                       ELSE "returned"
                 items == {wr.putRequests[i].Item : i \in done}
                 keys == {RecordKey(wr.putRequests[i].leadId, wr.putRequests[i].Item.Vendor) : i \in done}
             IN  /\ writers' = [writers EXCEPT ![w] =
                        [wr EXCEPT !.pc = pc,
                                   !.unprocessedItems = unprocessedItems,
                                   !.retryCount = retryCount,
                                   !.calls = wr.calls + 1,
                                   !.delay = BackoffDelay(wr.retryCount),
                                   !.lastThrew = out.threw,
                                   !.anyThrew = wr.anyThrew \/ out.threw,
                                   !.lastItems = I,
                                   !.everCompleted = wr.everCompleted \/ ~out.threw,
                                   !.lastReported = IF out.threw THEN wr.lastReported
                                                    ELSE out.unprocessed,
                                   !.reportedWritten = wr.reportedWritten \cup done]]
                 /\ store' = PutItems(store, items)
                 /\ written' = written \cup
                        {<<wr.batch[i].id, TableKey(wr.putRequests[i].Item)>> : i \in done}
                 /\ dropped' = IF pc = "returned"
                               THEN dropped \cup {wr.batch[i].id : i \in unprocessedItems}
                               ELSE dropped
                 /\ lastWrite' =
                        [k \in DOMAIN lastWrite \cup keys |->
                            IF k \in keys
                            THEN LET i == CHOOSE j \in done :
                                              RecordKey(wr.putRequests[j].leadId,
                                                        wr.putRequests[j].Item.Vendor) = k
                                 IN  [ReceivedAt |-> wr.putRequests[i].Item.ReceivedAt,
                                      Lead |-> wr.putRequests[i].Item.Lead]
                            ELSE lastWrite[k]]
    /\ UNCHANGED <<queue, dlq, now, accepted>>
    /\ UNCHANGED routerVars

\* the invocation runs into the function timeout (5 s) and is killed
\* and its messages become visible again
WriterTimeout(w) ==
    /\ writers[w].pc = "loop"
    /\ queue' = queue \cup {writers[w].batch[i] : i \in 1..Len(writers[w].batch)}
    /\ writers' = [writers EXCEPT ![w] = IdleWriter]
    /\ UNCHANGED <<store, written, dropped, lastWrite, dlq, now, accepted>>
    /\ UNCHANGED routerVars

\* an event source that deletes the batch whatever the invocation did
SettleDeleting(w) ==
    /\ writers[w].pc \in {"returned", "threw"}
    /\ writers' = [writers EXCEPT ![w] = IdleWriter]
    /\ UNCHANGED <<queue, store, written, dropped, lastWrite, dlq, now, accepted>>
    /\ UNCHANGED routerVars

\* the messages of a batch whose body is no JSON document
Unparsable(batch) ==
    {batch[i] : i \in {j \in 1..Len(batch) : IsThrown(JSONParse(batch[j].body))}}

\* an event source that is told which records failed and makes only those
\* visible again
SettlePartial(w) ==
    /\ writers[w].pc \in {"returned", "threw"}
    /\ queue' = IF writers[w].pc = "returned" THEN queue
                ELSE queue \cup Unparsable(writers[w].batch)
    /\ writers' = [writers EXCEPT ![w] = IdleWriter]
    /\ UNCHANGED <<store, written, dropped, lastWrite, dlq, now, accepted>>
    /\ UNCHANGED routerVars

\* The event source settles the batch: after a normal return every message
\* is deleted, after a failure every message becomes visible again.
Settle(w) ==
    /\ writers[w].pc \in {"returned", "threw"}
    /\ queue' = IF writers[w].pc = "returned" THEN queue
                ELSE queue \cup {writers[w].batch[i] : i \in 1..Len(writers[w].batch)}
    /\ writers' = [writers EXCEPT ![w] = IdleWriter]
    /\ UNCHANGED <<store, written, dropped, lastWrite, dlq, now, accepted>>
    /\ UNCHANGED routerVars

(***************************************************************************)
(* Specifications.                                                         *)
(***************************************************************************)
Receive == \E e \in PipelineEvents : HandlerStart(e)
StartWriter == \E w \in 1..MaxWriters : WriterStart(w)
Attempt == \E w \in 1..MaxWriters : WriterAttempt(w)
Timeout == \E w \in 1..MaxWriters : WriterTimeout(w)
SettleBatch == \E w \in 1..MaxWriters : Settle(w)

Next ==
    \/ Receive
    \/ SendChunkToSQS
    \/ PutChunkToEventBridge
    \/ StartWriter
    \/ Attempt
    \/ Timeout
    \/ SettleBatch
    \/ Redrive

Spec == Init /\ [][Next]_vars

\* The ingestion router alone, over every kind of request.
ReceiveAny == \E e \in RouterEvents : HandlerStart(e)

RouterNext ==
    \/ ReceiveAny
    \/ SendChunkToSQS
    \/ PutChunkToEventBridge

RouterSpec == Init /\ [][RouterNext]_vars

\* The StoreWriter alone, fed by any producer of the DDB queue: the queue
\* delivers whatever text was sent to it, a router message or not.
MaxProduced == 2
ProducedBodies ==
    {CharText(<<"{", "i", "d">>),
     JSONStringify(QueuedLead(RequestIdOf(1), JStr(V_LendingTree), LeadWithId(<<"a">>))),
     JSONStringify(QueuedLead(RequestIdOf(1), JStr(V_acme), LeadNoId)),
     JSONStringify(QueuedLead(RequestIdOf(1), JStr(V_LendingTree), JNull))}

Produce ==
    /\ Cardinality(accepted) < MaxProduced
    /\ \E body \in ProducedBodies :
          LET id == <<0, Cardinality(accepted) + 1>>
          IN  /\ queue' = queue \cup {[id |-> id, body |-> body, rc |-> 0]}
              /\ accepted' = accepted \cup {id}
    /\ UNCHANGED <<dlq, now>>
    /\ UNCHANGED routerVars
    /\ UNCHANGED writerVars

WriterNext ==
    \/ Produce
    \/ StartWriter
    \/ Attempt
    \/ Timeout
    \/ SettleBatch
    \/ Redrive

WriterSpec == Init /\ [][WriterNext]_vars

(***************************************************************************)
(* Properties.                                                             *)
(***************************************************************************)
WrittenIds == {p[1] : p \in written}
DlqIds == {m.id : m \in dlq}
QueueIds == {m.id : m \in queue}
InFlightIds ==
    UNION {{writers[w].batch[i].id : i \in 1..Len(writers[w].batch)} : w \in 1..MaxWriters}

\* nothing is waiting in the queue and no invocation is running
Quiescent ==
    /\ rt.pc \notin {"sqs", "eb"}
    /\ queue = {}
    /\ \A w \in 1..MaxWriters : writers[w].pc = "idle"

\* the queue messages of the leads of an answered request
LeadsOfRequest(a) == {<<a.requestId, i>> : i \in 1..a.leads}

NoVendor(e) ==
    /\ GetPropOpt(e.headers, K_vendor).t = "undef"
    /\ GetPropOpt(e.queryStringParameters, K_vendor).t = "undef"

\* the message text of a response body, "" when the body has none
BodyMessage(response) ==
    IF "message" \in DOMAIN response.body THEN response.body.message ELSE ""

\* C2 as stated, for the requests that are no preflight: a request without a
\* vendor is answered with 400 and a body that contains "Vendor name cannot be
\* empty.".
C2_NoVendorAnswer ==
    rt.pc = "done" /\ rt.event.httpMethod = "POST" /\ NoVendor(rt.event)
        => /\ rt.response.statusCode = BAD_REQUEST_RESPONSE_CODE
           /\ BodyMessage(rt.response) = "Vendor name cannot be empty."

\* the query string holds nothing but, possibly, vendor
OnlyVendorInQuery(e) ==
    e.queryStringParameters.t = "obj" => DOMAIN e.queryStringParameters.o \subseteq {K_vendor}

\* C3 as stated: a request with a vendor, an empty body and no query parameter
\* other than vendor is answered with 400 and the message "No lead data
\* provided in body or query parameters.".
C3_NoLeadDataAnswer ==
    rt.pc = "done" /\ rt.event.httpMethod = "POST" /\ Truthy(getVendor(rt.event))
                   /\ ~HasBody(rt.event) /\ OnlyVendorInQuery(rt.event)
        => /\ rt.response.statusCode = BAD_REQUEST_RESPONSE_CODE
           /\ BodyMessage(rt.response) = "No lead data provided in body or query parameters."

\* C4 as stated: an invocation in which any batch write threw does not return
\* normally.
C4_AnyThrowPropagates ==
    \A w \in 1..MaxWriters : writers[w].pc = "returned" => ~writers[w].anyThrew

\* C4, amended: a thrown batch write propagates exactly when it is the
\* failure that brings the retry count to MAX_RETRIES; an earlier one is
\* retried, and the invocation returns normally whenever its last batch write
\* did not throw.
C4_LastThrowPropagates ==
    \A w \in 1..MaxWriters :
        /\ writers[w].pc = "threw" /\ writers[w].calls > 0
              => writers[w].lastThrew /\ writers[w].retryCount = MAX_RETRIES
        /\ writers[w].pc = "returned" => ~writers[w].lastThrew
        /\ writers[w].pc = "loop" /\ writers[w].lastThrew
              => writers[w].retryCount < MAX_RETRIES

\* an invocation that returned normally although one of its batch writes threw
C4_Witness ==
    \E w \in 1..MaxWriters :
        /\ writers[w].pc = "returned"
        /\ writers[w].anyThrew
        /\ writers[w].unprocessedItems = {}

\* the messages of the put requests at positions I of an invocation
MessagesAt(w, I) == {writers[w].batch[i].id : i \in I}

\* C5: an invocation whose third batch write returned with items still
\* unprocessed returns normally; its messages are consumed, they are neither
\* delivered again nor dead-lettered, whether or not their lead was written.
C5_SilentDrop ==
    /\ \A w \in 1..MaxWriters :
          /\ writers[w].calls = MAX_RETRIES
          /\ ~writers[w].lastThrew
          /\ writers[w].unprocessedItems # {}
          => /\ writers[w].pc = "returned"
             /\ MessagesAt(w, writers[w].unprocessedItems) \subseteq dropped
    /\ dropped \cap (QueueIds \cup DlqIds) = {}

\* a lead that was dropped and is in no record, with nothing left to deliver
C5_Witness ==
    /\ Quiescent
    /\ dlq = {}
    /\ \E m \in dropped : m \notin WrittenIds

\* C6: an invocation issues at most MAX_RETRIES batch writes, and a batch
\* write after one that returned carries exactly what the latest returned one
\* reported unprocessed, and nothing that was reported written.
C6_RetryUnprocessedOnly ==
    /\ [](\A w \in 1..MaxWriters : writers[w].calls <= MAX_RETRIES)
    /\ [][\A w \in 1..MaxWriters :
            writers'[w].calls = writers[w].calls + 1
                => /\ writers[w].everCompleted
                        => writers'[w].lastItems = writers[w].lastReported
                   /\ writers'[w].lastItems \cap writers[w].reportedWritten = {}]_vars

\* a third batch write that carries one of the two put requests
C6_Witness ==
    \E w \in 1..MaxWriters :
        /\ writers[w].calls = MAX_RETRIES
        /\ Len(writers[w].putRequests) = 2
        /\ Cardinality(writers[w].lastItems) = 1
        /\ writers[w].reportedWritten # {}

\* the table keys a message was written under
KeysOf(m) == {p[2] : p \in {q \in written : q[1] = m}}

\* C7 as stated: however often a message is processed, it is written under
\* one table key, so that it leaves one record.
C7_OneRecordPerMessage ==
    \A m \in accepted : Cardinality(KeysOf(m)) <= 1

\* the items of the table under the key of a resolved id and vendor
ItemsUnder(k) ==
    {it \in store : it.LeadId = <<"Lead#">> \o k[1] /\ it.VendorName = <<"Vendor#">> \o k[2]}

\* C8: for every (resolved id, vendor) pair that was written, the table holds
\* exactly one item under ("Lead#" + id, "Vendor#" + vendor), and its
\* ReceivedAt and Lead are those of the latest write.
C8_Upsert ==
    \A k \in DOMAIN lastWrite :
        /\ Cardinality(ItemsUnder(k)) = 1
        /\ \A it \in ItemsUnder(k) :
              /\ it.ReceivedAt = lastWrite[k].ReceivedAt
              /\ it.Lead = lastWrite[k].Lead

\* two invocations running side by side have written two different leads
\* under the same key
C8_Witness ==
    /\ \A w \in 1..MaxWriters : writers[w].pc = "returned"
    /\ \E k \in DOMAIN lastWrite :
          /\ lastWrite[k].Lead = LeadWithIdAnd(<<"a">>)
          /\ \A m \in {<<1, 1>>, <<1, 2>>} :
                \E it \in ItemsUnder(k) : <<m, TableKey(it)>> \in written

\* C9: every chunk is sent to the queue whatever the earlier sends did, and a
\* request whose event-bus puts did not throw is answered with 200.
C9_QueueDispatchNeverThrows ==
    /\ rt.pc \in {"eb", "done"} =>
          /\ Len(rt.sqsCalls) = Len(rt.chunks)
          /\ \A k \in 1..Len(rt.sqsCalls) : rt.sqsCalls[k].chunk = k
    /\ rt.pc = "done" /\ rt.chunks # <<>> /\ (\A k \in 1..Len(rt.ebCalls) : ~rt.ebCalls[k].threw)
          => rt.response.statusCode = SUCCESS_RESPONSE_CODE

\* the first of two sends threw, the second reported a failed entry, and the
\* answer is 200
C9_Witness ==
    /\ rt.pc = "done"
    /\ Len(rt.sqsCalls) = 2
    /\ rt.sqsCalls[1].threw
    /\ rt.sqsCalls[2].failed # {}
    /\ rt.response.statusCode = SUCCESS_RESPONSE_CODE

\* C10: a put that throws ends the dispatch and the request is answered with
\* 500; a put that reports failed entries does not, and a request none of
\* whose puts threw is answered with 200.
C10_EventBusAsymmetry ==
    rt.pc = "done" /\ rt.ebCalls # <<>> =>
        /\ \A k \in 1..Len(rt.ebCalls) :
              rt.ebCalls[k].threw
                  => /\ k = Len(rt.ebCalls)
                     /\ rt.response.statusCode = INTERNAL_SERVER_ERROR_RESPONSE_CODE
        /\ (\A k \in 1..Len(rt.ebCalls) : ~rt.ebCalls[k].threw)
              => /\ Len(rt.ebCalls) = Len(rt.chunks)
                 /\ rt.response.statusCode = SUCCESS_RESPONSE_CODE

\* the first put reported a failed entry, the second threw, the answer is 500
C10_Witness ==
    /\ rt.pc = "done"
    /\ Len(rt.ebCalls) = 2
    /\ rt.ebCalls[1].FailedEntryCount > 0
    /\ rt.ebCalls[2].threw
    /\ rt.response.statusCode = INTERNAL_SERVER_ERROR_RESPONSE_CODE

\* the request went on to the dispatch of its leads
Dispatched ==
    \/ rt.pc \in {"sqs", "eb"}
    \/ rt.pc = "done" /\ rt.sqsCalls # <<>>
    \/ /\ rt.pc = "done"
       /\ rt.event.httpMethod # "OPTIONS"
       /\ rt.response.statusCode = SUCCESS_RESPONSE_CODE

RECURSIVE Concat(_)
Concat(ss) == IF ss = <<>> THEN <<>> ELSE Head(ss) \o Concat(Tail(ss))

CeilDiv(n, d) == (n + d - 1) \div d

\* the queue messages of the request in progress
OwnMessages == {m \in queue : m.id[1] = rt.requestId}

\* the chunks of the request are an order-preserving partition of its leads
\* into ceil(n/10) chunks of 1 to 10 leads, the same for the queue and for
\* the event bus; a payload that is no array is one chunk of one lead
C11_Partition ==
    Dispatched =>
        LET leads == LeadsOf(rt.leadsData)
        IN  /\ Len(rt.chunks) = CeilDiv(Len(leads), 10)
            /\ \A k \in 1..Len(rt.chunks) : Len(rt.chunks[k]) \in 1..10
            /\ Concat(rt.chunks) = leads
            /\ rt.chunks = ChunksOf(leads, MAX_EVENTS_PER_BATCH)
            /\ JSONParse(rt.leadsData).t # "arr"
                  => rt.chunks = << <<JSONParse(rt.leadsData)>> >>

\* one send-batch call per chunk, in order, with one entry per lead of the
\* chunk; a message of the queue carries the lead at its position of the
\* payload; one put per chunk, in order, as long as no put threw
C11_Calls ==
    /\ \A k \in 1..Len(rt.sqsCalls) :
          /\ rt.sqsCalls[k].chunk = k
          /\ rt.sqsCalls[k].entries = Len(rt.chunks[k])
    /\ rt.pc = "eb" \/ (rt.pc = "done" /\ Dispatched)
          => Len(rt.sqsCalls) = Len(rt.chunks)
    /\ Dispatched =>
          \A m \in OwnMessages :
              m.body = JSONStringify(QueuedLead(RequestIdOf(rt.requestId), rt.vendor,
                                                LeadsOf(rt.leadsData)[m.id[2]]))
    /\ \A k \in 1..Len(rt.ebCalls) : rt.ebCalls[k].chunk = k
    /\ rt.pc = "done" /\ Dispatched /\ (\A k \in 1..Len(rt.ebCalls) : ~rt.ebCalls[k].threw)
          => Len(rt.ebCalls) = Len(rt.chunks)

\* a put publishes one envelope whose detail is {vendor, leads: chunk} when
\* it is accepted, and nothing else changes the bus
C11_BusStep ==
    IF rt.pc = "eb" /\ Len(rt'.ebCalls) = Len(rt.ebCalls) + 1
    THEN LET c == rt'.ebCalls[Len(rt'.ebCalls)]
         IN  IF ~c.threw /\ c.FailedEntryCount = 0
             THEN /\ Len(bus') = Len(bus) + 1
                  /\ bus'[Len(bus')].Detail =
                        JSONStringify([vendor |-> rt.vendor, leads |-> rt.chunks[c.chunk]])
                  /\ SubSeq(bus', 1, Len(bus)) = bus
             ELSE bus' = bus
    ELSE bus' = bus

\* C11: a payload of n leads is split, in order, into ceil(n/10) chunks of 1
\* to 10 leads whose concatenation is the payload; the router issues one queue
\* send-batch call per chunk with one entry per lead, and one event-bus entry
\* per chunk with detail {vendor, leads: chunk}; a payload that is no array is
\* a list of one lead.
C11_Batching ==
    /\ [](C11_Partition /\ C11_Calls)
    /\ [][C11_BusStep]_vars

\* 25 leads answered with 200: three send-batch calls for chunks of 10, 10 and
\* 5 leads, 25 messages in the queue and three envelopes on the bus
C11_Witness ==
    /\ rt.pc = "done"
    /\ rt.response.statusCode = SUCCESS_RESPONSE_CODE
    /\ Len(LeadsOf(rt.leadsData)) = 25
    /\ [k \in 1..Len(rt.chunks) |-> Len(rt.chunks[k])] = <<10, 10, 5>>
    /\ [k \in 1..Len(rt.sqsCalls) |-> rt.sqsCalls[k].entries] = <<10, 10, 5>>
    /\ Cardinality(OwnMessages) = 25
    /\ Len(bus) = 3


\* some record of the batch of invocation w is no JSON document
ParseFailed(w) ==
    \E i \in 1..Len(writers[w].batch) : IsThrown(JSONParse(writers[w].batch[i].body))

\* C12: an invocation one of whose record bodies fails to parse throws before
\* it reads the configuration and before any batch write, so that it persists
\* none of its messages, and when it is settled every message of the batch,
\* the well-formed ones included, is visible in the queue again.
C12_ParseFailureAbortsBatch ==
    /\ [](\A w \in 1..MaxWriters :
            ParseFailed(w) => /\ writers[w].pc = "threw"
                              /\ writers[w].configReads = 0
                              /\ writers[w].calls = 0
                              /\ writers[w].reportedWritten = {})
    /\ [][\A w \in 1..MaxWriters :
            ParseFailed(w) /\ writers'[w] # writers[w]
                => /\ {writers[w].batch[i] : i \in 1..Len(writers[w].batch)} \subseteq queue'
                   /\ store' = store
                   /\ written' = written]_vars

\* a malformed and a well-formed message were delivered together, nothing was
\* written, and both are back in the queue
C12_Witness ==
    /\ store = {}
    /\ \A w \in 1..MaxWriters : writers[w].pc = "idle"
    /\ \E m1, m2 \in queue :
          /\ IsThrown(JSONParse(m1.body))
          /\ ~IsThrown(JSONParse(m2.body))
          /\ m1.rc = 1
          /\ m2.rc = 1


\* C13 as stated, for the router: whatever the read of the configuration
\* yields, the resolver gets a mapping and does not throw, so a request that
\* read the configuration and none of whose event-bus puts threw is answered
\* with 200 and a non-empty lead id.
C13_ConfigFailOpen ==
    /\ rt.pc = "done"
    /\ rt.configReads > 0
    /\ \A k \in 1..Len(rt.ebCalls) : ~rt.ebCalls[k].threw
    => /\ rt.response.statusCode = SUCCESS_RESPONSE_CODE
       /\ rt.leadId.t = "str"
       /\ rt.leadId.s # <<>>


\* the lead id a response carries, undefined when its shape has none
EchoedLeadId(response) ==
    IF "leadAcknowledgement" \in DOMAIN response.body
    THEN response.body.leadAcknowledgement.leadExternalId
    ELSE Undefined

\* the value the lead of the request has under the property configured for
\* the lower-cased vendor name, undefined when there is none
ConfiguredLeadId ==
    LET key == ToLowerCase(rt.vendor.s)
    IN  IF rt.vendorsConfig.t = "obj" /\ key \in DOMAIN rt.vendorsConfig.o
        THEN ResolveProperty(JSONParse(rt.leadsData),
                             GetPropOpt(rt.vendorsConfig.o[key], K_leadIdProperty))
        ELSE Undefined

\* C14 as stated, for the router: when the vendor name equals a configured
\* key up to letter case and the configured property is truthy in the lead,
\* the lead id the router resolves, and echoes in a lendingtree answer, is
\* that property value.
C14_VendorCaseInsensitive ==
    /\ rt.pc = "done"
    /\ rt.configReads > 0
    /\ ~IsThrown(ConfiguredLeadId)
    /\ Truthy(ConfiguredLeadId)
    => /\ rt.leadId = ConfiguredLeadId
       /\ "leadAcknowledgement" \in DOMAIN rt.response.body
             => EchoedLeadId(rt.response) = ConfiguredLeadId


\* the message of the i-th record of invocation w
MessageOf(w, i) == JSONParse(writers[w].batch[i].body)

\* C15 as stated: the id of every put request an invocation builds is the
\* result of the resolver rule for the lead, the loaded configuration and the
\* vendor of its message, so that a generated id starts with a request id
\* exactly when the lead has a requestId; and the invocation builds its put
\* requests, without throwing, also for a lead that is null.
C15_WriterUsesResolverRule ==
    \A w \in 1..MaxWriters :
        /\ \A i \in 1..Len(writers[w].putRequests) :
              \E ssm \in WriterSsmOutcomes, rand \in RandomSuffixes :
                  writers[w].putRequests[i].leadId =
                      getVendorsLeadId(MessageOf(w, i).lead, getVendorsConfigWriter(ssm),
                                       ToLowerCase(MessageOf(w, i).vendor.s),
                                       writers[w].putRequests[i].Item.ReceivedAt, rand)
        /\ writers[w].configReads > 0 => writers[w].putRequests # <<>>


\* every queue send and every event-bus put of the request was accepted
BothDispatchesSucceeded ==
    /\ rt.pc = "done"
    /\ Len(rt.sqsCalls) = Len(rt.chunks)
    /\ Len(rt.ebCalls) = Len(rt.chunks)
    /\ \A k \in 1..Len(rt.sqsCalls) : ~rt.sqsCalls[k].threw /\ rt.sqsCalls[k].failed = {}
    /\ \A k \in 1..Len(rt.ebCalls) : ~rt.ebCalls[k].threw /\ rt.ebCalls[k].FailedEntryCount = 0

\* the request names the vendor lendingtree, its payload is one JSON object
\* and the configuration gives lendingtree the property Internal_LeadID
LendingTreeSingleLead ==
    /\ rt.vendor = JStr(LENDINGTREE)
    /\ rt.leadsData.k = "json"
    /\ rt.leadsData.v.t = "obj"
    /\ rt.vendorsConfig.t = "obj"
    /\ LeadIdPropertyOf(rt.vendorsConfig, LENDINGTREE) = JStr(K_InternalLeadID)

\* C16: a lendingtree request with a single JSON object whose Internal_LeadID,
\* the configured property, has the value v is answered, when both dispatches
\* succeed, with 200 and {leadAcknowledgement: {leadExternalId: v,
\* partnerDecision: "accepted", attemptRetransmit: false}}.
C16_LendingTreeAcknowledgement ==
    /\ BothDispatchesSucceeded
    /\ LendingTreeSingleLead
    /\ Truthy(GetProp(rt.leadsData.v, K_InternalLeadID))
    => /\ rt.response.statusCode = 200
       /\ rt.response.body =
             [leadAcknowledgement |->
                 [leadExternalId |-> GetProp(rt.leadsData.v, K_InternalLeadID),
                  partnerDecision |-> "accepted",
                  attemptRetransmit |-> FALSE]]

\* the request {"Internal_LeadID": "abc123"} of vendor lendingtree, dispatched
\* and answered with leadExternalId abc123
C16_Witness ==
    /\ BothDispatchesSucceeded
    /\ LendingTreeSingleLead
    /\ rt.leadsData.v = JObj(K_InternalLeadID :> JStr(V_abc123))
    /\ Len(rt.sqsCalls) = 1
    /\ Len(bus) = 1
    /\ rt.response.body.leadAcknowledgement.leadExternalId = JStr(V_abc123)


\* two characters are the same letter in either case
SameLetter(c, d) ==
    \/ c = d
    \/ \E j \in 1..26 : {c, d} = {UpperChars[j], LowerChars[j]}

EqualIgnoringCase(a, b) ==
    /\ Len(a) = Len(b)
    /\ \A i \in 1..Len(a) : SameLetter(a[i], b[i])

\* the vendor name the answer of the request is formatted for
FormattingVendor == IF Truthy(rt.vendor) THEN rt.vendor.s ELSE UNKNOWN

\* the request has been answered by the response factory (no preflight)
Answered == rt.pc = "done" /\ rt.event.httpMethod # "OPTIONS"

\* C17: the shape of an answer follows the vendor name, compared ignoring
\* case: lendingtree in any spelling gets {leadAcknowledgement} on success and
\* on error, every other vendor gets {status, message}, which on success is
\* {status: "success", message: "Leads processed asynchronously."}.
C17_ResponseShapeByVendor ==
    Answered =>
        IF EqualIgnoringCase(FormattingVendor, LENDINGTREE)
        THEN /\ DOMAIN rt.response.body = {"leadAcknowledgement"}
             /\ DOMAIN rt.response.body.leadAcknowledgement =
                   {"leadExternalId", "partnerDecision", "attemptRetransmit"}
        ELSE /\ DOMAIN rt.response.body = {"status", "message"}
             /\ rt.response.statusCode = SUCCESS_RESPONSE_CODE
                   => rt.response.body = [status |-> "success",
                                          message |-> "Leads processed asynchronously."]

\* vendor LendingTree, in mixed case, answered with 500 in the
\* leadAcknowledgement shape
C17_Witness ==
    /\ Answered
    /\ rt.vendor = JStr(V_LendingTree)
    /\ rt.response.statusCode = INTERNAL_SERVER_ERROR_RESPONSE_CODE
    /\ rt.response.body.leadAcknowledgement.partnerDecision = "rejected"


\* some event-bus put of the request threw
DispatchFailed == \E k \in 1..Len(rt.ebCalls) : rt.ebCalls[k].threw

\* C18 as stated: a request whose dispatch failed is answered with 500 and a
\* body that carries both the message of the error and the lead id resolved
\* for the request, whatever the vendor is.
C18_ErrorBodyHasMessageAndLeadId ==
    rt.pc = "done" /\ DispatchFailed =>
        /\ rt.response.statusCode = INTERNAL_SERVER_ERROR_RESPONSE_CODE
        /\ BodyMessage(rt.response) \in EbErrorMessages
        /\ EchoedLeadId(rt.response) = rt.leadId


\* the number of queue sends and event-bus puts of the request so far
CallsIssued(r) == Len(r.sqsCalls) + Len(r.ebCalls)

\* C19: within a request the lead id is resolved before the first queue send,
\* every queue send has returned before the first event-bus put, the answer
\* is produced only after the dispatches have ended, and the calls happen one
\* at a time: no queue send follows or accompanies an event-bus put.
C19_Sequential ==
    /\ [](/\ rt.sqsCalls # <<>> \/ rt.pc \in {"sqs", "eb"} => rt.leadId.t # "undef"
          /\ rt.ebCalls # <<>> \/ rt.pc = "eb" => Len(rt.sqsCalls) = Len(rt.chunks)
          /\ rt.response # NoResponse <=> rt.pc = "done"
          /\ Answered /\ rt.response.statusCode = SUCCESS_RESPONSE_CODE
                => /\ Len(rt.sqsCalls) = Len(rt.chunks)
                   /\ Len(rt.ebCalls) = Len(rt.chunks))
    /\ [][rt' # rt =>
            /\ rt.pc \in {"sqs", "eb"} => CallsIssued(rt') = CallsIssued(rt) + 1
            /\ rt.pc = "eb" => rt'.sqsCalls = rt.sqsCalls
            /\ rt.pc = "sqs" => rt'.ebCalls = <<>> /\ rt'.response = NoResponse]_vars

\* the three queue sends of a request have returned, its first event-bus put
\* has been made and its answer is still to come
C19_Witness ==
    /\ rt.pc = "eb"
    /\ Len(rt.chunks) = 3
    /\ Len(rt.sqsCalls) = 3
    /\ Len(rt.ebCalls) = 1
    /\ rt.leadId = JNull
    /\ rt.response = NoResponse


\* C20: an OPTIONS request is answered with 200 and the preflight headers,
\* Allow-Origin *, Allow-Methods "POST, PUT, PATCH, OPTIONS", Allow-Headers
\* "Content-Type, vendor" and Max-Age 86400, and nothing else happens: no
\* vendor is looked up, no configuration is read, nothing is sent to the queue
\* or put on the bus, whatever headers, query string and body it carries.
C20_Preflight ==
    /\ [](rt.pc # "idle" /\ rt.event.httpMethod = "OPTIONS" =>
            /\ rt.pc = "done"
            /\ rt.response.statusCode = 200
            /\ rt.response.headers =
                  [AccessControlAllowOrigin |-> "*",
                   AccessControlAllowMethods |-> "POST, PUT, PATCH, OPTIONS",
                   AccessControlAllowHeaders |-> "Content-Type, vendor",
                   AccessControlMaxAge |-> "86400"]
            /\ rt.vendor = Undefined
            /\ rt.leadsData = NoBody
            /\ rt.configReads = 0
            /\ rt.sqsCalls = <<>>
            /\ rt.ebCalls = <<>>)
    /\ [][rt' # rt /\ rt'.event.httpMethod = "OPTIONS"
            => queue' = queue /\ bus' = bus /\ accepted' = accepted]_vars

\* an OPTIONS request that names a vendor and carries a lead, answered with
\* 200 while the queue and the bus are empty
C20_Witness ==
    /\ rt.pc = "done"
    /\ rt.event.httpMethod = "OPTIONS"
    /\ Truthy(getVendor(rt.event))
    /\ HasBody(rt.event)
    /\ rt.response.statusCode = 200
    /\ queue = {}
    /\ bus = <<>>


\* C21 as stated: every answer of the handler, the preflight included, has
\* the header Content-Type: application/json and the header
\* Access-Control-Allow-Origin: *.
C21_HeadersOnEveryAnswer ==
    rt.pc = "done" =>
        /\ "ContentType" \in DOMAIN rt.response.headers
        /\ rt.response.headers.ContentType = "application/json"
        /\ "AccessControlAllowOrigin" \in DOMAIN rt.response.headers
        /\ rt.response.headers.AccessControlAllowOrigin = "*"


\* C22: the handler never throws: whatever the request is and whatever the
\* configuration read, the queue sends and the event-bus puts do, a handler
\* that has started can always go on until it returns, and what it returns is
\* a response with status 200, 400 or 500.
C22_HandlerNeverThrows ==
    /\ rt.pc \in {"idle", "sqs", "eb", "done"}
    /\ rt.pc \in {"sqs", "eb"} =>
          /\ rt.k \in 1..Len(rt.chunks)
          /\ ENABLED (SendChunkToSQS \/ PutChunkToEventBridge)
    /\ rt.pc = "done" =>
          /\ rt.response.statusCode \in {200, 400, 500}
          /\ DOMAIN rt.response = {"statusCode", "headers", "body"}

\* the configuration read gave nothing, the queue send threw and the
\* event-bus put threw; the request is answered with 500
C22_Witness ==
    /\ rt.pc = "done"
    /\ rt.configReads = 1
    /\ rt.vendorsConfig = EmptyObj
    /\ Len(rt.sqsCalls) = 1
    /\ rt.sqsCalls[1].threw
    /\ Len(rt.ebCalls) = 1
    /\ rt.ebCalls[1].threw
    /\ rt.response.statusCode = 500


\* C23 as stated: every message of the queue carries a non-empty vendor, the
\* request id of its invocation and a lead that is a non-null object, and a
\* request whose payload is null is answered with 400 and leaves no message.
C23_MessageInvariants ==
    /\ \A m \in queue :
          /\ m.body.k = "json"
          /\ m.body.v.vendor.t = "str"
          /\ m.body.v.vendor.s # <<>>
          /\ m.body.v.requestId = RequestIdOf(m.id[1])
          /\ m.body.v.lead.t = "obj"
    /\ Answered /\ Truthy(rt.vendor) /\ rt.leadsData = NoBody
          => /\ rt.response.statusCode = BAD_REQUEST_RESPONSE_CODE
             /\ OwnMessages = {}


\* the messages held by running invocations
InFlight ==
    UNION {{writers[w].batch[i] : i \in 1..Len(writers[w].batch)} : w \in 1..MaxWriters}

\* the messages no invocation has written or returned normally with
Failing == accepted \ (WrittenIds \cup dropped)

C25_LeadIdOfPayload ==
    Dispatched =>
        LET parsed == JSONParse(rt.leadsData)
        IN  /\ parsed.t = "arr" =>
                  /\ rt.leadId = JNull
                  /\ rt.configReads = 0
                  /\ rt.vendorsConfig = Undefined
            /\ parsed.t = "obj" =>
                  /\ rt.configReads = 1
                  /\ \E t \in 0..MaxTime, rand \in RandomSuffixes :
                        rt.leadId = getVendorsLeadId(parsed, rt.vendorsConfig, rt.vendor.s, t, rand)
            /\ /\ rt.pc = "done"
               /\ rt.response.statusCode = SUCCESS_RESPONSE_CODE
               /\ "leadAcknowledgement" \in DOMAIN rt.response.body
               /\ parsed.t \in {"arr", "obj"}
               => EchoedLeadId(rt.response) = rt.leadId

\* an array of 11 leads that carry the configured id property, answered with
\* 200 and a null lead id
C25_Witness ==
    /\ rt.pc = "done"
    /\ rt.response.statusCode = SUCCESS_RESPONSE_CODE
    /\ JSONParse(rt.leadsData).t = "arr"
    /\ Len(JSONParse(rt.leadsData).a) = 11
    /\ EchoedLeadId(rt.response) = JNull
    /\ rt.configReads = 0


\* the container, headers or query string, has a non-empty vendor entry
HasVendorIn(c) ==
    /\ c.t = "obj"
    /\ K_vendor \in DOMAIN c.o
    /\ c.o[K_vendor].t = "str"
    /\ c.o[K_vendor].s # <<>>

\* C26: the vendor of a request is its vendor header when that is non-empty,
\* otherwise its vendor query parameter when that is non-empty, otherwise
\* there is none and the request is answered with 400; a vendor key of a
\* form-encoded body is never the vendor.
C26_VendorExtraction ==
    Answered =>
        IF HasVendorIn(rt.event.headers)
        THEN rt.vendor = rt.event.headers.o[K_vendor]
        ELSE IF HasVendorIn(rt.event.queryStringParameters)
        THEN rt.vendor = rt.event.queryStringParameters.o[K_vendor]
        ELSE /\ rt.vendor = Undefined
             /\ rt.response.statusCode = BAD_REQUEST_RESPONSE_CODE
             /\ OwnMessages = {}

\* a request with the vendor LendingTree in its header and acme in its query
\* string, answered as vendor LendingTree
C26_Witness ==
    /\ Answered
    /\ HasVendorIn(rt.event.headers)
    /\ HasVendorIn(rt.event.queryStringParameters)
    /\ rt.event.queryStringParameters.o[K_vendor] = JStr(V_acme)
    /\ rt.vendor = JStr(V_LendingTree)
    /\ "leadAcknowledgement" \in DOMAIN rt.response.body


\* the payload of the request comes from a form-encoded body or, without a
\* body, from the query string
FormOrQueryPayload(e) ==
    ~HasBody(e) \/ Includes(ContentTypeOf(e), FORM_URLENCODED)

\* the keys the request offers as payload, vendor left out
KeysBesideVendor(e) ==
    IF HasBody(e) THEN DOMAIN decodeURLParamsInBody(e.body) \ {K_vendor}
    ELSE IF e.queryStringParameters.t = "obj"
         THEN DOMAIN e.queryStringParameters.o \ {K_vendor}
         ELSE {}

\* C27 as stated: the payload extracted from a form-encoded body or from the
\* query string of a body-less request has no key vendor, and it is null
\* exactly when no key other than vendor remains.
C27_PayloadWithoutVendor ==
    Answered /\ Truthy(rt.vendor) /\ FormOrQueryPayload(rt.event) =>
        /\ rt.leadsData # NoBody => K_vendor \notin DOMAIN rt.leadsData.v.o
        /\ rt.leadsData = NoBody <=> KeysBesideVendor(rt.event) = {}


\* what dereferencing the segments in turn reaches: nothing when a segment is
\* missing or when what is to be dereferenced is null or no object
RECURSIVE Reached(_, _)
Reached(v, segments) ==
    IF segments = <<>> THEN [found |-> TRUE, value |-> v]
    ELSE IF v.t = "obj" /\ Head(segments) \in DOMAIN v.o
    THEN Reached(v.o[Head(segments)], Tail(segments))
    ELSE [found |-> FALSE]

\* the identifiers the fallback can generate for a lead
GeneratedIds(lead) ==
    {generateUniqueLeadId(lead, t, rand) : t \in 0..MaxTime, rand \in RandomSuffixes}

\* the property configured for the vendor of the request, as given
ConfiguredProperty ==
    IF rt.vendorsConfig.t = "obj" /\ rt.vendor.s \in DOMAIN rt.vendorsConfig.o
    THEN GetPropOpt(rt.vendorsConfig.o[rt.vendor.s], K_leadIdProperty)
    ELSE Undefined

\* the request has one object as payload and its vendor is configured with a
\* dotted path
DottedPathCase ==
    /\ Answered
    /\ rt.configReads = 1
    /\ JSONParse(rt.leadsData).t = "obj"
    /\ ConfiguredProperty.t = "str"
    /\ Includes(ConfiguredProperty.s, ".")

\* C28: with a dotted leadIdProperty the resolver returns the value reached
\* by dereferencing the segments in turn ({user: {id: "x9"}} and user.id give
\* x9); when a segment is missing or an intermediate value is null or no
\* object it returns a generated id, and it never throws.
C28_DottedPath ==
    DottedPathCase =>
        LET lead == JSONParse(rt.leadsData)
            r == Reached(lead, Split(ConfiguredProperty.s, "."))
        IN  /\ rt.leadId.t # "undef"
            /\ r.found /\ Truthy(r.value) => rt.leadId = r.value
            /\ ~r.found => rt.leadId \in GeneratedIds(lead)

\* the lead {user: null} under the path user.id was given a generated id and
\* dispatched
C28_Witness ==
    /\ DottedPathCase
    /\ JSONParse(rt.leadsData) = JObj(K_user :> JNull)
    /\ rt.leadId \in GeneratedIds(JSONParse(rt.leadsData))
    /\ rt.response.statusCode = SUCCESS_RESPONSE_CODE


\* cs starts with pre
StartsWith(cs, pre) == Len(cs) >= Len(pre) /\ SubSeq(cs, 1, Len(pre)) = pre

\* the value a lead holds under a property name, dotted or plain
ResolvedValue(lead, prop) ==
    IF Includes(prop, ".")
    THEN LET r == Reached(lead, Split(prop, "."))
         IN  IF r.found THEN r.value ELSE Undefined
    ELSE IF lead.t = "obj" /\ prop \in DOMAIN lead.o THEN lead.o[prop] ELSE Undefined

\* undefined, null, 0 and the empty string
Falsy(v) == v.t \in {"undef", "null"} \/ v = JNum(0) \/ v = JStr(<<>>)

\* the resolver ran: the payload is one object or null, the configuration is
\* an object and the property it gives the vendor, if any, is a string
ResolverCalled ==
    /\ Answered
    /\ rt.configReads = 1
    /\ rt.vendorsConfig.t = "obj"
    /\ JSONParse(rt.leadsData).t \in {"obj", "null"}
    /\ ConfiguredProperty.t \in {"undef", "str"}

\* the resolver has to fall back for this lead and property
FallbackCase(lead, prop) ==
    \/ lead.t = "null"
    \/ Falsy(prop)
    \/ Falsy(ResolvedValue(lead, prop.s))

\* the lead has a requestId of its own
RequestIdExists(lead) == lead.t = "obj" /\ K_requestId \in DOMAIN lead.o

\* the lead has a requestId of its own that is not falsy
HasRequestId(lead) == RequestIdExists(lead) /\ ~Falsy(lead.o[K_requestId])

\* C29: the resolver returns a generated id when the lead is null, when the
\* vendor has no configured leadIdProperty or when the resolved value is
\* falsy, and the resolved value unchanged otherwise; the generated id is a
\* non-empty text that starts with the lead's requestId and "_" exactly when
\* the lead has a requestId.
C29_FallbackRules ==
    ResolverCalled =>
        LET lead == JSONParse(rt.leadsData)
            prop == ConfiguredProperty
        IN  IF FallbackCase(lead, prop)
            THEN /\ rt.leadId.t = "str"
                 /\ rt.leadId.s # <<>>
                 /\ RequestIdExists(lead) =>
                        StartsWith(rt.leadId.s, TemplateStr(lead.o[K_requestId]) \o <<"_">>)
                 /\ ~RequestIdExists(lead) => rt.leadId \in GeneratedIds(JNull)
            ELSE rt.leadId = ResolvedValue(lead, prop.s)

\* C29, with the prefix tied to a truthy requestId: everything else as stated
C29_FallbackRulesTruthyRequestId ==
    ResolverCalled =>
        LET lead == JSONParse(rt.leadsData)
            prop == ConfiguredProperty
        IN  IF FallbackCase(lead, prop)
            THEN /\ rt.leadId.t = "str"
                 /\ rt.leadId.s # <<>>
                 /\ HasRequestId(lead) =>
                        StartsWith(rt.leadId.s, TemplateStr(lead.o[K_requestId]) \o <<"_">>)
                 /\ ~HasRequestId(lead) => rt.leadId \in GeneratedIds(JNull)
            ELSE rt.leadId = ResolvedValue(lead, prop.s)

\* the lead {requestId: ""} of a vendor without configuration was given a
\* generated id that does not start with "_", and dispatched
C29_Witness ==
    /\ ResolverCalled
    /\ JSONParse(rt.leadsData) = JObj(K_requestId :> JStr(<<>>))
    /\ rt.leadId \in GeneratedIds(JSONParse(rt.leadsData))
    /\ ~StartsWith(rt.leadId.s, <<"_">>)
    /\ rt.response.statusCode = SUCCESS_RESPONSE_CODE


\* the smaller of two numbers
Min(a, b) == IF a < b THEN a ELSE b

\* C30: the writer waits nothing before its first batch write and
\* min(100 * 2^k, 2000) ms before a later one, k being the number of batch
\* writes of the invocation that already failed or left items unprocessed
\* (all the earlier ones, since the loop ends with the first that leaves
\* nothing); the wait is never above 2000 ms and each retry waits longer
\* than the attempt before it.
C30_Backoff ==
    /\ [](\A w \in 1..MaxWriters :
            LET wr == writers[w]
            IN  /\ wr.delay <= 2000
                /\ wr.calls <= 1 => wr.delay = 0
                /\ wr.calls >= 2 =>
                      /\ wr.retryCount >= wr.calls - 1
                      /\ wr.delay = Min(100 * 2^(wr.calls - 1), 2000))
    /\ [][\A w \in 1..MaxWriters :
            writers'[w].calls = writers[w].calls + 1 /\ writers[w].calls >= 1
            => writers'[w].delay > writers[w].delay]_vars

\* an invocation made its third batch write after waiting 400 ms
C30_Witness ==
    \E w \in 1..MaxWriters :
        /\ writers[w].calls = MAX_RETRIES
        /\ writers[w].delay = 400


\* one decoding step: every "+" to a space, then the percent escapes
DecodeStep(cs) == decodeURIComponent(ReplacePlus(cs))

\* cs after n decoding steps, none of which fails
RECURSIVE StepsFrom(_, _)
StepsFrom(cs, n) ==
    IF n = 0 THEN [ok |-> TRUE, cs |-> cs]
    ELSE LET r == StepsFrom(cs, n - 1)
         IN  IF r.ok THEN DecodeStep(r.cs) ELSE r

\* the request has the form body x=v with v one of the encoded values, and
\* its payload has been extracted
FormValueCase ==
    /\ Answered
    /\ Truthy(rt.vendor)
    /\ HasBody(rt.event)
    /\ Includes(ContentTypeOf(rt.event), FORM_URLENCODED)
    /\ \E v \in EncodedValues : rt.event.body = CharText(K_x \o <<"=">> \o v)

\* the value sent under x
FormValueSent == SubSeq(rt.event.body.cs, 3, Len(rt.event.body.cs))

\* C31: decodeFormValue ends on every value; what it returns is reached from
\* the value by successful decoding steps (every "+" to a space, then the
\* percent escapes), at most one per character; it is a fixed point of the
\* step when no step fails and the last value decoded when the next step
\* fails; and decoding it again returns it unchanged.
C31_IterativeDecoding ==
    FormValueCase =>
        LET v == FormValueSent
            r == rt.leadsData.v.o[K_x]
        IN  /\ r.t = "str"
            /\ \E n \in 0..Len(v) :
                  /\ StepsFrom(v, n).ok
                  /\ StepsFrom(v, n).cs = r.s
                  /\ \/ ~DecodeStep(r.s).ok
                     \/ DecodeStep(r.s).cs = r.s
            /\ (\A n \in 0..(Len(v) + 1) : StepsFrom(v, n).ok) =>
                  DecodeStep(r.s) = [ok |-> TRUE, cs |-> r.s]
            /\ decodeFormValue(r) = r

\* the three times encoded value %252520 was decoded to a space
C31_Witness ==
    /\ FormValueCase
    /\ FormValueSent = <<"%", "2", "5", "2", "5", "2", "0">>
    /\ rt.leadsData.v.o[K_x] = JStr(<<" ">>)

\* the value %25zz was decoded once, to %zz, which cannot be decoded further
C31_WitnessFailingStep ==
    /\ FormValueCase
    /\ FormValueSent = <<"%", "2", "5", "z", "z">>
    /\ rt.leadsData.v.o[K_x] = JStr(<<"%", "z", "z">>)
    /\ ~DecodeStep(<<"%", "z", "z">>).ok


\* the puts of the request that published their chunk, in order
RECURSIVE PublishedChunks(_)
PublishedChunks(calls) ==
    IF calls = <<>> THEN <<>>
    ELSE LET c == calls[Len(calls)]
             before == PublishedChunks(SubSeq(calls, 1, Len(calls) - 1))
         IN  IF ~c.threw /\ c.FailedEntryCount = 0 THEN Append(before, c.chunk) ELSE before

\* the envelopes of the request in progress: the latest ones of the bus, one
\* per publishing put
OwnEnvelopes ==
    LET n == Len(PublishedChunks(rt.ebCalls))
    IN  SubSeq(bus, Len(bus) - n + 1, Len(bus))

\* the queue accepted the messages of these entries of the request
OwnAccepted == {id \in accepted : id[1] = rt.requestId}

\* the entries the sends of the request delivered
DeliveredEntries ==
    UNION {{MessageIdOf(rt.requestId, rt.sqsCalls[c].chunk, i) :
                i \in (1..rt.sqsCalls[c].entries) \ rt.sqsCalls[c].failed} :
           c \in {d \in 1..Len(rt.sqsCalls) : ~rt.sqsCalls[d].threw}}

\* what a thrown put leaves behind, whatever the earlier calls reported
PutThrewOnChunk(k) ==
    /\ rt.response.statusCode = INTERNAL_SERVER_ERROR_RESPONSE_CODE
    /\ Len(rt.ebCalls) = k
    /\ \A j \in 1..k : rt.ebCalls[j].chunk = j /\ (rt.ebCalls[j].threw <=> j = k)
    /\ Len(rt.sqsCalls) = Len(rt.chunks)
    /\ \A c \in 1..Len(rt.sqsCalls) :
          rt.sqsCalls[c].chunk = c /\ rt.sqsCalls[c].entries = Len(rt.chunks[c])
    /\ OwnAccepted = DeliveredEntries
    /\ Len(OwnEnvelopes) = Len(PublishedChunks(rt.ebCalls))
    /\ \A i \in 1..Len(OwnEnvelopes) :
          /\ PublishedChunks(rt.ebCalls)[i] < k
          /\ OwnEnvelopes[i] = EventEntry(rt.vendor, rt.chunks[PublishedChunks(rt.ebCalls)[i]])

\* C32 as stated: when a put throws on chunk k, no later chunk is published,
\* every chunk before k has been published and every queue chunk of the
\* request has been sent, so that the queue holds every lead of the request.
C32_EarlierChunksIngested ==
    rt.pc = "done" /\ DispatchFailed =>
        LET k == CHOOSE j \in 1..Len(rt.ebCalls) : rt.ebCalls[j].threw
        IN  /\ PutThrewOnChunk(k)
            /\ PublishedChunks(rt.ebCalls) = [j \in 1..(k - 1) |-> j]
            /\ OwnAccepted =
                  {MessageIdOf(rt.requestId, c, i) :
                      c \in 1..Len(rt.chunks), i \in 1..MAX_MESSAGES_PER_BATCH}
                  \cap {<<rt.requestId, i>> : i \in 1..Len(LeadsOf(rt.leadsData))}

\* C32, with the failures the earlier calls may have reported: when a put
\* throws on chunk k the request is answered 500, no put follows, a put was
\* made for every chunk before k and a send-batch call for every chunk of the
\* request; the bus has the chunks before k whose put reported no failed
\* entry, in order, and the queue the entries of the sends that did not
\* throw, less the ones reported as failed.
C32_PartialIngestion ==
    rt.pc = "done" /\ DispatchFailed =>
        PutThrewOnChunk(CHOOSE j \in 1..Len(rt.ebCalls) : rt.ebCalls[j].threw)

\* a request of three chunks whose third put threw: 500, the first two chunks
\* are on the bus and all its leads are in the queue
C32_Witness ==
    /\ rt.pc = "done"
    /\ DispatchFailed
    /\ Len(rt.chunks) = 3
    /\ Len(rt.ebCalls) = 3
    /\ PublishedChunks(rt.ebCalls) = <<1, 2>>
    /\ Cardinality(OwnAccepted) = Len(LeadsOf(rt.leadsData))
    /\ rt.response.statusCode = INTERNAL_SERVER_ERROR_RESPONSE_CODE


\* the request was answered with status 400
BadRequest(r) ==
    /\ r.pc = "done"
    /\ r.event.httpMethod # "OPTIONS"
    /\ r.response.statusCode = BAD_REQUEST_RESPONSE_CODE

\* C33: a request answered with 400, for a missing vendor or a missing
\* payload, has had no side effect: the configuration was not read, no queue
\* send-batch call and no event-bus put was issued, and the step that answers
\* it leaves the queue and the bus as they were.
C33_BadRequestWithoutSideEffect ==
    /\ [](BadRequest(rt) =>
            /\ ~Truthy(rt.vendor) \/ rt.leadsData = NoBody
            /\ rt.configReads = 0
            /\ rt.vendorsConfig = Undefined
            /\ rt.sqsCalls = <<>>
            /\ rt.ebCalls = <<>>
            /\ OwnAccepted = {}
            /\ OwnMessages = {})
    /\ [][rt' # rt /\ BadRequest(rt') =>
            /\ rt.pc \in {"idle", "done"}
            /\ queue' = queue /\ accepted' = accepted /\ bus' = bus]_vars

\* a request with a vendor and without payload, answered with 400
C33_Witness ==
    /\ BadRequest(rt)
    /\ Truthy(rt.vendor)
    /\ rt.leadsData = NoBody
    /\ rt.configReads = 0


\* the request names a vendor and has a body that is not empty, not declared
\* as form data and not a JSON document
NotJsonCase ==
    /\ Answered
    /\ Truthy(rt.vendor)
    /\ HasBody(rt.event)
    /\ ~Includes(ContentTypeOf(rt.event), FORM_URLENCODED)
    /\ IsThrown(JSONParse(rt.event.body))

\* C34: a request with a vendor and a non-empty body that is neither form
\* data nor valid JSON is answered with 500, not 400, and no queue send-batch
\* call and no event-bus put is issued for it: the payload is the body as
\* sent and parsing it fails while the lead id is extracted, before the
\* configuration is read.
C34_InvalidJsonIs500 ==
    NotJsonCase =>
        /\ rt.response.statusCode = INTERNAL_SERVER_ERROR_RESPONSE_CODE
        /\ rt.leadsData = rt.event.body
        /\ rt.leadId = Undefined
        /\ rt.configReads = 0
        /\ rt.sqsCalls = <<>>
        /\ rt.ebCalls = <<>>
        /\ OwnAccepted = {}

\* the body x=1 sent without the form content type, answered with 500
C34_Witness ==
    /\ NotJsonCase
    /\ rt.event.body = CharText(<<"x", "=", "1">>)
    /\ rt.response.statusCode = INTERNAL_SERVER_ERROR_RESPONSE_CODE
    /\ CallsIssued(rt) = 0


\* the message the queue holds for the i-th lead of the request
OwnMessageAt(i) == CHOOSE m \in OwnMessages : m.id[2] = i

\* the leads of the queue messages of the request, in chunk and entry order
QueuedLeads ==
    [i \in 1..Cardinality(OwnMessages) |-> JSONParse(OwnMessageAt(i).body).lead]

\* the leads of the envelopes of the request, envelope by envelope
PublishedLeads ==
    [j \in 1..Len(OwnEnvelopes) |-> JSONParse(OwnEnvelopes[j].Detail).leads]

\* every send-batch call and every put of the request succeeded in full
NoSendFailed ==
    /\ rt.pc = "done"
    /\ rt.sqsCalls # <<>>
    /\ \A c \in 1..Len(rt.sqsCalls) : ~rt.sqsCalls[c].threw /\ rt.sqsCalls[c].failed = {}
    /\ \A j \in 1..Len(rt.ebCalls) : ~rt.ebCalls[j].threw /\ rt.ebCalls[j].FailedEntryCount = 0

\* C35: when no send of a dispatched request fails, the leads of its queue
\* messages, in chunk and entry order, are the leads of its event-bus
\* envelopes in order, which are the leads of the payload; every message and
\* every envelope names the vendor of the request; and the envelopes have the
\* chunk boundaries of the send-batch calls.
C35_FanOutConsistency ==
    NoSendFailed =>
        /\ \A i \in 1..Cardinality(OwnMessages) : \E m \in OwnMessages : m.id[2] = i
        /\ QueuedLeads = Concat(PublishedLeads)
        /\ QueuedLeads = LeadsOf(rt.leadsData)
        /\ \A m \in OwnMessages : JSONParse(m.body).vendor = rt.vendor
        /\ \A j \in 1..Len(OwnEnvelopes) : JSONParse(OwnEnvelopes[j].Detail).vendor = rt.vendor
        /\ Len(PublishedLeads) = Len(rt.sqsCalls)
        /\ \A j \in 1..Len(PublishedLeads) : Len(PublishedLeads[j]) = rt.sqsCalls[j].entries

\* 25 leads went out in full: 25 messages and three envelopes of 10, 10 and 5
C35_Witness ==
    /\ NoSendFailed
    /\ Cardinality(OwnMessages) = BatchLeads
    /\ Len(PublishedLeads) = 3
    /\ Len(PublishedLeads[3]) = 5
    /\ rt.response.statusCode = SUCCESS_RESPONSE_CODE


\* the request names a vendor and its body is the JSON document []
EmptyArrayCase ==
    /\ Answered
    /\ Truthy(rt.vendor)
    /\ HasBody(rt.event)
    /\ ~Includes(ContentTypeOf(rt.event), FORM_URLENCODED)
    /\ JSONParse(rt.event.body) = JArr(<<>>)

\* C36: a request whose body is the empty JSON array passes the validation
\* of the payload and is answered with 200 and a null lead id, although no
\* queue send-batch call and no event-bus put is issued for it and nothing of
\* it reaches the queue or the bus.
C36_EmptyArrayAccepted ==
    EmptyArrayCase =>
        /\ rt.response.statusCode = SUCCESS_RESPONSE_CODE
        /\ rt.leadsData = rt.event.body
        /\ rt.leadId = JNull
        /\ "leadAcknowledgement" \in DOMAIN rt.response.body
              => rt.response.body.leadAcknowledgement.leadExternalId = JNull
        /\ rt.sqsCalls = <<>>
        /\ rt.ebCalls = <<>>
        /\ OwnAccepted = {}
        /\ OwnEnvelopes = <<>>

\* the request [] of vendor acme, answered with 200 without any call
C36_Witness ==
    /\ EmptyArrayCase
    /\ rt.response.statusCode = SUCCESS_RESPONSE_CODE
    /\ CallsIssued(rt) = 0
    /\ rt.chunks = <<>>


\* the body has the lendingtree shape
AcknowledgementBody(b) == "leadAcknowledgement" \in DOMAIN b

\* the body says the request succeeded
SuccessShaped(b) ==
    IF AcknowledgementBody(b) THEN b.leadAcknowledgement.partnerDecision = "accepted"
    ELSE "status" \in DOMAIN b /\ b.status = "success"

\* C37: in every answer to a request other than OPTIONS the status is 200
\* exactly when the body is success-shaped (status "success", or
\* partnerDecision "accepted" for lendingtree); a lendingtree body has
\* attemptRetransmit true exactly when its partnerDecision is "rejected",
\* which is so exactly on 400 and 500.
C37_StatusAgreesWithBody ==
    Answered =>
        LET b == rt.response.body
        IN  /\ rt.response.statusCode = SUCCESS_RESPONSE_CODE <=> SuccessShaped(b)
            /\ ~AcknowledgementBody(b) => b.status \in {"success", "error"}
            /\ AcknowledgementBody(b) =>
                  LET a == b.leadAcknowledgement
                  IN  /\ a.partnerDecision \in {"accepted", "rejected"}
                      /\ a.attemptRetransmit <=> a.partnerDecision = "rejected"
                      /\ a.attemptRetransmit <=>
                            rt.response.statusCode \in {BAD_REQUEST_RESPONSE_CODE,
                                                        INTERNAL_SERVER_ERROR_RESPONSE_CODE}

\* a lendingtree request without payload, answered with 400, rejected and to
\* be retransmitted
C37_Witness ==
    /\ Answered
    /\ AcknowledgementBody(rt.response.body)
    /\ rt.response.statusCode = BAD_REQUEST_RESPONSE_CODE
    /\ rt.response.body.leadAcknowledgement.partnerDecision = "rejected"
    /\ rt.response.body.leadAcknowledgement.attemptRetransmit


=============================================================================
